---- MODULE Spec2Model ----
(***************************************************************************)
(* Incremental merge engine of the per-region catalog enrichers: the HK    *)
(* two-pass engine (fetchProductCodesHK.js).  A run loads the source view  *)
(* and the prior master, unions them by identity, overlays fresh fields    *)
(* non-destructively, recomputes the bookkeeping, derives the worklists,   *)
(* fetches, and persists the master and the active-only snapshot.          *)
(*                                                                         *)
(* JavaScript values are strings; UNDEF and NULL stand for undefined and   *)
(* null.  Timestamps are integers, 0 standing for a missing timestamp:     *)
(* run r reads `now` = 2r-1 at its start and stamps 2r at a completion.    *)
(***************************************************************************)
EXTENDS Integers, Sequences, FiniteSets, TLC

\* ------------------------------------------------------------------ bounds
\* runs of the engine over two identities
MaxRuns == 2
\* runs of the engine over a single identity
MaxRunsSolo == 4
\* runs of the engine in which an input file may be unreadable
MaxRunsFault == 3
\* records of a region handed to the resolver
MaxCandidates == 3
\* rows of each input file of the multi-region merge
MaxRows == 2
\* runs of the engine when a run may be killed
MaxRunsCrash == 2
\* country tasks in the pool of the prices enricher, and pages of each
PoolTasks == 2
MaxPages == 2
\* workers that call the limiter at the same time
TakeCallers == 3
\* items handed to a worker pool
PoolItems == 4
\* entries of a source view read as it is on disk
MaxRawEntries == 2

\* ------------------------------------------------------- program constants
Concurrency == 2
Retries == 2
CheckpointEvery == 10
\* the limiter, in tenths of a token: burst 2, 0.8 tokens a second, 1 a take
Burst == 20
Rate == 8
TokenCost == 10
\* CONFIG.cooldownEvery
CooldownEvery == 40
\* fetchText as the fetchers call it: maxAttempts 3, maxRedirects 5
FetchMaxAttempts == 3
FetchMaxRedirects == 5
\* getPrices.js: MIN_REQUEST_GAP_MS off CI, in milliseconds
MinRequestGapMs == 500
\* getPrices.js: BACKOFF_BASE_MS off CI; fetch_hk.js: BASE_DELAY_MS
BackoffBaseMs == 800
BaseDelayMs == 1000

\* ------------------------------------------------------------ value domain
UNDEF == "<undefined>"
NULL == "<null>"

IdOrder == <<"70010000000001", "70010000000002">>
Ids == {IdOrder[k] : k \in 1..Len(IdOrder)}

SourceCode == "HAC-B"
PageCode == "HAC-A"
Switch == "Nintendo Switch"

\* String.prototype.trim on the strings of the model (" " is the only
\* string with surrounding whitespace)
Trim(s) == IF s = " " THEN "" ELSE s

\* typeof v === "string"
IsString(v) == v \notin {UNDEF, NULL}

\* typeof v === "string" && v.trim() !== ""
IsNonBlankString(v) == IsString(v) /\ Trim(v) # ""

\* JavaScript truthiness of a string-or-nullish value
Truthy(v) == v \notin {UNDEF, NULL, ""}

\* (v ?? "").toString().trim()
TrimStr(v) == IF v \in {UNDEF, NULL} THEN "" ELSE Trim(v)

\* pick that lets any defined fresh value win
pick_FreshWins(a, b) == IF a # UNDEF THEN a ELSE b

pick(a, b) == IF TrimStr(a) # "" THEN a ELSE IF TrimStr(b) # "" THEN b ELSE a

\* pickCode without the sentinel rule: any string of the fresh row wins
pickCode_BlankOverwrites(baseVal, priorVal) ==
  IF IsString(baseVal) THEN baseVal ELSE priorVal

\* pickCode that turns a prior null into the "" sentinel
pickCode_DropsRetry(baseVal, priorVal) ==
  IF IsNonBlankString(baseVal) THEN baseVal
  ELSE IF priorVal = "" \/ priorVal = NULL THEN ""
  ELSE IF priorVal # UNDEF THEN priorVal
  ELSE baseVal

pickCode(baseVal, priorVal) ==
  IF IsNonBlankString(baseVal) THEN baseVal
  ELSE IF priorVal = "" THEN ""
  ELSE IF priorVal # UNDEF THEN priorVal
  ELSE baseVal

\* b || a
OrTime_TakesNew(a, b) == IF b # 0 THEN b ELSE a

\* a || b on timestamps (0 is the missing timestamp)
OrTime(a, b) == IF a # 0 THEN a ELSE b

\* ------------------------------------------------------------------- rows
\* a row of the source view data/hk_games.json (the fields the merge reads)
BaseRows ==
  [productCode_hk : {UNDEF, "", SourceCode},
   platform : {"", Switch}]

\* {} : the object a missing row is replaced by (every field undefined)
EmptyRow == [productCode_hk |-> UNDEF, platform |-> UNDEF]

\* {} as a prior master row
EmptyRecord ==
  [productCode_hk |-> UNDEF, platform |-> UNDEF,
   active_in_base |-> FALSE,
   first_seen_at |-> 0, last_seen_at |-> 0, last_checked_at |-> 0]

\* the source views: a row for each identity of a subset of Ids
BaseViews == UNION {[S -> BaseRows] : S \in SUBSET Ids}

NoRows == [i \in {} |-> EmptyRecord]

\* ----------------------------------------------------------------- state
VARIABLES
  master,                \* data/hk_games_enriched.json: identity -> record
  snapshot,              \* data/hk_games_enriched_current.json
  pc,                    \* "idle" | "pass1" | "pass2" | "done"
  run,                   \* number of runs started
  inBase,                \* this run's source view, by identity
  existingMaster,        \* the prior master as loaded by this run
  working,               \* the in-memory master of this run
  toProcessCode,         \* worklist of pass 1 (identities, in order)
  toProcessPlatformOnly, \* worklist of pass 2
  idx,                   \* mapWithConcurrency: items dispatched so far
  inflight,              \* mapWithConcurrency: positions being fetched
  processed,             \* completions of pass 1
  platDone,              \* platOnlyFound + platOnlyMiss of pass 2
  lastResult,            \* history: result of the last pass-1 fetch per id
  sameBase,              \* history: this run's source view is the previous run's
  fault,                 \* the input file this run could not read or parse
  ov,                    \* the merge loop on one field: field, base, prior, merged
  wl,                    \* the worklist filter on one merged record
  rs,                    \* the resolver on one canonical record and one region
  mg,                    \* the multi-region merge: inputs, indexes, output rows
  net,                   \* the limiter and the requests of one fetching worker
  ft,                    \* one fetch at the level of its HTTP responses
  kr,                    \* the KR engine on one record: merge, worklist, outcome
  gate,                  \* the prices enricher: politeGate and its callers
  cd                     \* the HK engine's request counters and its cooldown

\* the state of the HK engine and its two output files
hkVars ==
  <<master, snapshot, pc, run, inBase, existingMaster, working,
    toProcessCode, toProcessPlatformOnly, idx, inflight, processed,
    platDone, lastResult, sameBase, fault>>

\* the state the HK engine does not touch
laterVars == <<ft, kr, gate, cd>>
nonHK == <<ov, wl, rs, mg, net, laterVars>>

vars == <<hkVars, nonHK>>

\* nowIso() read at the start of run r, and at a completion during run r
RunNow(r) == 2 * r - 1
StampNow(r) == 2 * r

\* ------------------------------------------------------------ merge step
\* the identities of the source view only
unionIds_SourceOnly(base, prior) == DOMAIN base

unionIds(base, prior) == DOMAIN base \cup DOMAIN prior

\* merge variants: last_seen_at stamped on every record; active_in_base kept
\* once true; last_checked_at stamped on every active record
mergeRecord_TouchesLastSeen(id, base, prior, now) ==
  LET b == IF id \in DOMAIN base THEN base[id] ELSE EmptyRow
      p == IF id \in DOMAIN prior THEN prior[id] ELSE EmptyRecord
  IN  [productCode_hk |-> pickCode(b.productCode_hk, p.productCode_hk),
       platform |-> pick(b.platform, p.platform),
       active_in_base |-> id \in DOMAIN base,
       first_seen_at |-> OrTime(p.first_seen_at, now),
       last_seen_at |-> now,
       last_checked_at |-> p.last_checked_at]

mergeRecord_StickyActive(id, base, prior, now) ==
  LET b == IF id \in DOMAIN base THEN base[id] ELSE EmptyRow
      p == IF id \in DOMAIN prior THEN prior[id] ELSE EmptyRecord
      active == id \in DOMAIN base
  IN  [productCode_hk |-> pickCode(b.productCode_hk, p.productCode_hk),
       platform |-> pick(b.platform, p.platform),
       active_in_base |-> active \/ p.active_in_base,
       first_seen_at |-> OrTime(p.first_seen_at, now),
       last_seen_at |-> IF active THEN now ELSE OrTime(p.last_seen_at, now),
       last_checked_at |-> p.last_checked_at]

mergeRecord_StampsChecked(id, base, prior, now) ==
  LET b == IF id \in DOMAIN base THEN base[id] ELSE EmptyRow
      p == IF id \in DOMAIN prior THEN prior[id] ELSE EmptyRecord
      active == id \in DOMAIN base
  IN  [productCode_hk |-> pickCode(b.productCode_hk, p.productCode_hk),
       platform |-> pick(b.platform, p.platform),
       active_in_base |-> active,
       first_seen_at |-> OrTime(p.first_seen_at, now),
       last_seen_at |-> IF active THEN now ELSE OrTime(p.last_seen_at, now),
       last_checked_at |-> IF active THEN now ELSE p.last_checked_at]

\* one iteration of the union loop: the merged record of identity id
mergeRecord(id, base, prior, now) ==
  LET b == IF id \in DOMAIN base THEN base[id] ELSE EmptyRow
      p == IF id \in DOMAIN prior THEN prior[id] ELSE EmptyRecord
      active == id \in DOMAIN base
  IN  [productCode_hk |-> pickCode(b.productCode_hk, p.productCode_hk),
       platform |-> pick(b.platform, p.platform),
       active_in_base |-> active,
       first_seen_at |-> OrTime(p.first_seen_at, now),
       last_seen_at |-> IF active THEN now ELSE OrTime(p.last_seen_at, now),
       last_checked_at |-> p.last_checked_at]

mergeAll(base, prior, now) ==
  [id \in unionIds(base, prior) |-> mergeRecord(id, base, prior, now)]

\* the filter of toProcessCode without the skip of the "" sentinel
inCodeWorklist_RetriesEmpty(g) ==
  /\ g.active_in_base
  /\ ~ IsNonBlankString(g.productCode_hk)

\* the filter of toProcessCode
inCodeWorklist(g) ==
  /\ g.active_in_base
  /\ g.productCode_hk # ""
  /\ ~ IsNonBlankString(g.productCode_hk)

\* the filter of toProcessPlatformOnly without the test of the platform
inPlatformWorklist_WithPlatform(g) ==
  /\ g.active_in_base
  /\ IsNonBlankString(g.productCode_hk)

\* the filter of toProcessPlatformOnly
inPlatformWorklist(g) ==
  /\ g.active_in_base
  /\ IsNonBlankString(g.productCode_hk)
  /\ (~ Truthy(g.platform) \/ TrimStr(g.platform) = "")

\* Array.prototype.filter over the working array, in array order
\* (kept is the set of identities whose record passes the filter)
RECURSIVE filterIds(_, _)
filterIds(kept, k) ==
  IF k > Len(IdOrder) THEN <<>>
  ELSE (IF IdOrder[k] \in kept THEN <<IdOrder[k]>> ELSE <<>>)
         \o filterIds(kept, k + 1)

Range(s) == {s[k] : k \in 1..Len(s)}

\* -------------------------------------------------------- worker pool
Min(a, b) == IF a < b THEN a ELSE b

\* kick(): dispatch while inflight < limit and items remain
kickIdx(i, fl, n) == Min(n, i + (Concurrency - Cardinality(fl)))
\* a kick that hands out the last dispatched position again
kickInflight_Redispatch(i, fl, n) == fl \cup (i..kickIdx(i, fl, n))

kickInflight(i, fl, n) == fl \cup ((i + 1)..kickIdx(i, fl, n))

\* ------------------------------------------------------------ fetch engine
\* What one attempt of getProductCodeForNsuid gets from fetchText: a page
\* (with or without a product code and a platform attribute), a rejection
\* with HTTP 404, or any other rejection (other status, network error).
Page(code, platform) == [kind |-> "PAGE", code |-> code, platform |-> platform]
Http404 == [kind |-> "HTTP404", code |-> NULL, platform |-> NULL]
Failed == [kind |-> "FAILED", code |-> NULL, platform |-> NULL]

AttemptOutcomes ==
  {Page(c, p) : c \in {NULL, PageCode}, p \in {NULL, Switch}} \cup {Http404, Failed}

\* attempts of one call: attempt = 0 .. Math.max(1, CONFIG.retries)
MaxAttempts == (IF Retries > 1 THEN Retries ELSE 1) + 1

\* the attempts of one call: the server fails the first k attempts and then
\* keeps answering o
AttemptRuns ==
  {[a \in 1..MaxAttempts |-> IF a <= k THEN Failed ELSE o] :
     k \in 0..MaxAttempts, o \in AttemptOutcomes}

RECURSIVE fetchLoop(_, _)
fetchLoop(resps, attempt) ==
  IF attempt > MaxAttempts
    THEN [productCode |-> NULL, platform |-> NULL, result |-> "ERROR"]
  ELSE LET r == resps[attempt]
       IN  IF r.kind = "PAGE"
             THEN IF Truthy(r.code)
                    THEN [productCode |-> r.code, platform |-> r.platform,
                          result |-> "FOUND"]
                    ELSE [productCode |-> "", platform |-> r.platform,
                          result |-> "NO_CODE"]
           ELSE IF r.kind = "HTTP404"
             THEN [productCode |-> "", platform |-> NULL, result |-> "NOT_FOUND"]
           ELSE fetchLoop(resps, attempt + 1)

\* a Confirmed Absent outcome stored as null
getProductCodeForNsuid_AbsentIsNull(resps) ==
  LET res == fetchLoop(resps, 1)
  IN  IF res.result \in {"NO_CODE", "NOT_FOUND"}
        THEN [res EXCEPT !.productCode = NULL] ELSE res

getProductCodeForNsuid(resps) == fetchLoop(resps, 1)

getPlatformForNsuid(r) ==
  IF r.kind = "PAGE"
    THEN [platform |-> r.platform,
          result |-> IF Truthy(r.platform) THEN "FOUND" ELSE "NO_PLATFORM"]
    ELSE [platform |-> NULL, result |-> "ERROR"]

\* the save condition of a pass: every CheckpointEvery-th completion and the last
saveDue(done, total) == done % CheckpointEvery = 0 \/ done = total

\* the snapshot without its filter
activeOnly_All(w) == w

\* current = working.filter(g => g.active_in_base)
activeOnly(w) ==
  [id \in {i \in DOMAIN w : w[i].active_in_base} |-> w[id]]

\* ------------------------------------------------------------------- Init
\* neither output file exists yet: loadJsonSafe(OUT_MASTER, []) yields []
InitHK ==
  /\ master = NoRows
  /\ snapshot = NoRows
  /\ pc = "idle"
  /\ run = 0
  /\ inBase = NoRows
  /\ existingMaster = NoRows
  /\ working = NoRows
  /\ toProcessCode = <<>>
  /\ toProcessPlatformOnly = <<>>
  /\ idx = 0
  /\ inflight = {}
  /\ processed = 0
  /\ platDone = 0
  /\ lastResult = [id \in Ids |-> "NONE"]
  /\ sameBase = FALSE
  /\ fault = "none"

\* the merge loop of the single-field study has nothing to do
OvIdle == [stage |-> "idle", field |-> "", base |-> UNDEF, prior |-> UNDEF,
           merged |-> UNDEF]

\* the worklist filter of the single-record study has nothing to do
WlIdle == [stage |-> "idle", region |-> "", g |-> EmptyRecord, listed |-> FALSE]

\* the resolver of the single-record study has nothing to do
RsIdle == [stage |-> "idle"]

\* the multi-region merge has not been started
MgIdle == [stage |-> "idle"]

\* no process: no limiter, nothing requested
NetIdle == [stage |-> "off"]

FtIdle == [stage |-> "idle"]
KrIdle == [stage |-> "idle"]
GateIdle == [stage |-> "idle"]
CdIdle == [stage |-> "idle"]
LaterIdle == ft = FtIdle /\ kr = KrIdle /\ gate = GateIdle /\ cd = CdIdle

InitNonHK ==
  ov = OvIdle /\ wl = WlIdle /\ rs = RsIdle /\ mg = MgIdle /\ net = NetIdle
    /\ LaterIdle

Init == InitHK /\ InitNonHK

\* ---------------------------------------------------------------- actions
\* try { JSON.parse(readFileSync(p)) } catch { return def }
loadJsonSafe(content, readable, def) == IF readable THEN content ELSE def

\* main, up to the first kick of pass 1: load, union, merge, worklists
\* f names the input file whose read or parse throws in this run
mainLoading(b, f) ==
  /\ pc \in {"idle", "done"}
  /\ run' = run + 1
  /\ fault' = f
  /\ inBase' = loadJsonSafe(b, f # "source", NoRows)
  /\ sameBase' = (run > 0 /\ inBase' = inBase)
  /\ existingMaster' = loadJsonSafe(master, f # "master", NoRows)
  /\ working' = mergeAll(inBase', existingMaster', RunNow(run'))
  /\ toProcessCode' =
       filterIds({id \in DOMAIN working' : inCodeWorklist(working'[id])}, 1)
  /\ toProcessPlatformOnly' =
       filterIds({id \in DOMAIN working' : inPlatformWorklist(working'[id])}, 1)
  /\ processed' = 0
  /\ platDone' = 0
  /\ idx' = kickIdx(0, {}, Len(toProcessCode'))
  /\ inflight' = kickInflight(0, {}, Len(toProcessCode'))
  /\ pc' = "pass1"
  /\ UNCHANGED <<master, snapshot, lastResult>>
  /\ UNCHANGED nonHK

\* a run whose two input files are read and parsed
main(b) == mainLoading(b, "none")

\* a run over any source view of the two identities
Merge(b) == run < MaxRuns /\ main(b)

\* a run over a source view that knows the first identity only
MergeSolo(b) == run < MaxRunsSolo /\ main(b)

\* pass 1: the fetch of position pos completes; resps are its attempts
Pass1Complete(pos, resps) ==
  /\ pc = "pass1"
  /\ pos \in inflight
  /\ LET id == toProcessCode[pos]
         res == getProductCodeForNsuid(resps)
         rest == inflight \ {pos}
         n == Len(toProcessCode)
     IN  /\ working' =
               [working EXCEPT ![id] =
                  [@ EXCEPT !.productCode_hk = res.productCode,
                            !.platform = IF ~ Truthy(@) /\ Truthy(res.platform)
                                           THEN res.platform ELSE @,
                            !.last_checked_at = StampNow(run)]]
         /\ lastResult' = [lastResult EXCEPT ![id] = res.result]
         /\ processed' = processed + 1
         /\ master' = IF saveDue(processed', n) THEN working' ELSE master
         /\ idx' = kickIdx(idx, rest, n)
         /\ inflight' = kickInflight(idx, rest, n)
  /\ UNCHANGED <<snapshot, pc, run, inBase, existingMaster, toProcessCode,
                 toProcessPlatformOnly, platDone, sameBase>>
  /\ UNCHANGED <<fault, nonHK>>

\* the pool of pass 1 has resolved: main goes on to pass 2 and kicks it
Pass1Resolve ==
  /\ pc = "pass1"
  /\ idx >= Len(toProcessCode)
  /\ inflight = {}
  /\ pc' = "pass2"
  /\ idx' = kickIdx(0, {}, Len(toProcessPlatformOnly))
  /\ inflight' = kickInflight(0, {}, Len(toProcessPlatformOnly))
  /\ UNCHANGED <<master, snapshot, run, inBase, existingMaster, working,
                 toProcessCode, toProcessPlatformOnly, processed, platDone,
                 lastResult, sameBase>>
  /\ UNCHANGED <<fault, nonHK>>

\* pass 2: the platform fetch of position pos completes with outcome r
Pass2Complete(pos, r) ==
  /\ pc = "pass2"
  /\ pos \in inflight
  /\ LET id == toProcessPlatformOnly[pos]
         res == getPlatformForNsuid(r)
         rest == inflight \ {pos}
         n == Len(toProcessPlatformOnly)
         updated == IF Truthy(res.platform)
                      THEN [working EXCEPT ![id].platform = res.platform]
                      ELSE working
     IN  /\ platDone' = platDone + 1
         /\ master' = IF saveDue(platDone', n) THEN updated ELSE master
         /\ working' = [updated EXCEPT ![id].last_checked_at = StampNow(run)]
         /\ idx' = kickIdx(idx, rest, n)
         /\ inflight' = kickInflight(idx, rest, n)
  /\ UNCHANGED <<snapshot, pc, run, inBase, existingMaster, toProcessCode,
                 toProcessPlatformOnly, processed, lastResult, sameBase>>
  /\ UNCHANGED <<fault, nonHK>>

\* the final save of master and snapshot
FinalSave ==
  /\ pc = "pass2"
  /\ idx >= Len(toProcessPlatformOnly)
  /\ inflight = {}
  /\ master' = working
  /\ snapshot' = activeOnly(working)
  /\ pc' = "done"
  /\ UNCHANGED <<run, inBase, existingMaster, working, toProcessCode,
                 toProcessPlatformOnly, idx, inflight, processed, platDone,
                 lastResult, sameBase>>
  /\ UNCHANGED <<fault, nonHK>>

Next ==
  \/ \E b \in BaseViews : Merge(b)
  \/ \E pos \in 1..Len(IdOrder) :
       \E resps \in AttemptRuns : Pass1Complete(pos, resps)
  \/ Pass1Resolve
  \/ \E pos \in 1..Len(IdOrder) :
       \E r \in AttemptOutcomes : Pass2Complete(pos, r)
  \/ FinalSave

Spec == Init /\ [][Next]_vars

\* the source views over the first identity alone
SoloViews == UNION {[S -> BaseRows] : S \in SUBSET {IdOrder[1]}}

NextSolo ==
  \/ \E b \in SoloViews : MergeSolo(b)
  \/ \E resps \in AttemptRuns : Pass1Complete(1, resps)
  \/ Pass1Resolve
  \/ \E r \in AttemptOutcomes : Pass2Complete(1, r)
  \/ FinalSave

\* the engine run again and again over one identity
SpecSolo == Init /\ [][NextSolo]_vars

\* runs over the first identity in which an input file may be unreadable;
\* the master file exists, and so can be unreadable, once a run has saved it
MergeUnreadable(b, f) ==
  /\ run < MaxRunsFault
  /\ f = "master" => DOMAIN master # {}
  /\ mainLoading(b, f)

NextFault ==
  \/ \E b \in SoloViews : \E f \in {"none", "source", "master"} :
       MergeUnreadable(b, f)
  \/ \E resps \in AttemptRuns : Pass1Complete(1, resps)
  \/ Pass1Resolve
  \/ \E r \in AttemptOutcomes : Pass2Complete(1, r)
  \/ FinalSave

SpecFault == Init /\ [][NextFault]_vars

\* ===================================================================
\* The merge loop on one field of one record
\* ===================================================================
\* the fields the merge loop overlays from the source row
OverlaidFields ==
  {"title", "url", "productCode_hk", "platform", "releaseDate", "publisher",
   "imageSquare", "imageKey", "dlcType", "playerCount", "genres"}

\* the values of a scalar field in a row
ScalarValues == {UNDEF, NULL, "", " ", "old", "new"}

\* the values of the genres field: a non-array, or an array of names
NotArray == [isArray |-> FALSE, items |-> <<>>]
Arr(items) == [isArray |-> TRUE, items |-> items]
GenresValues == {NotArray, Arr(<<>>), Arr(<<"Action">>), Arr(<<"RPG", "Action">>)}

FieldValues(f) == IF f = "genres" THEN GenresValues ELSE ScalarValues

\* typeof v === "string" ? v.trim() !== "" : (v != null)
isNonEmpty(v) == IF IsString(v) THEN Trim(v) # "" ELSE v \notin {UNDEF, NULL}

\* the genres rule of the merge loop
overlayGenres(base, prior) ==
  IF base.isArray /\ Len(base.items) > 0 THEN base
  ELSE IF prior.isArray THEN prior
  ELSE Arr(<<>>)

\* the merged value of field f, merged starting as a copy of prior
overlay(f, base, prior) ==
  IF f \in {"title", "url"} THEN (IF isNonEmpty(base) THEN base ELSE prior)
  ELSE IF f = "productCode_hk" THEN pickCode(base, prior)
  ELSE IF f = "genres" THEN overlayGenres(base, prior)
  ELSE pick(base, prior)

\* every field with every pair of a source value and a prior value
OverlayInputs ==
  UNION {[stage : {"loaded"}, field : {f}, base : FieldValues(f),
          prior : FieldValues(f), merged : {UNDEF}] : f \in OverlaidFields}

InitOverlay ==
  InitHK /\ ov \in OverlayInputs /\ wl = WlIdle /\ rs = RsIdle /\ mg = MgIdle
    /\ net = NetIdle /\ LaterIdle

\* one round of the merge loop body on the field
mergeField ==
  /\ ov.stage = "loaded"
  /\ ov' = [ov EXCEPT !.stage = "merged",
                      !.merged = overlay(ov.field, ov.base, ov.prior)]
  /\ UNCHANGED <<hkVars, wl, rs, mg, net, laterVars>>

NextOverlay == mergeField

SpecOverlay == InitOverlay /\ [][NextOverlay]_vars

\* ===================================================================
\* The worklist filters on one merged record
\* ===================================================================
\* toProcess without the supportLanguage test
toProcess_IgnoresLanguage(g) ==
  /\ g.active_in_base
  /\ g.productCode_kr # ""
  /\ \/ ~ IsNonBlankString(g.productCode_kr)
     \/ (~ Truthy(g.platform) \/ TrimStr(g.platform) = "")

\* the KR filter of toProcess (every working record carries its nsuid)
toProcess(g) ==
  LET code == g.productCode_kr
      codeMissing == ~ IsNonBlankString(code) /\ code # ""
      platformMissing == ~ Truthy(g.platform) \/ TrimStr(g.platform) = ""
      langUnset == g.supportLanguage = UNDEF \/ g.supportLanguage = NULL
  IN  /\ g.active_in_base
      /\ code # ""
      /\ (codeMissing \/ platformMissing \/ langUnset)

\* the HK engine keeps two lists; a record is fetched when it is in either
toProcessHK(g) == inCodeWorklist(g) \/ inPlatformWorklist(g)

CodeValues == {UNDEF, NULL, "", PageCode}
PlatformValues == {UNDEF, "", " ", Switch}
LanguageValues == {UNDEF, NULL, "", "en"}

\* the merged records of the KR engine and of the HK engine
WorkingKR ==
  [productCode_kr : CodeValues, platform : PlatformValues,
   supportLanguage : LanguageValues, active_in_base : BOOLEAN]
WorkingHK ==
  [productCode_hk : CodeValues, platform : PlatformValues,
   active_in_base : BOOLEAN]

WorklistInputs ==
  [stage : {"merged"}, region : {"kr"}, g : WorkingKR, listed : {FALSE}]
    \cup [stage : {"merged"}, region : {"hk"}, g : WorkingHK, listed : {FALSE}]

InitWorklist ==
  InitHK /\ ov = OvIdle /\ wl \in WorklistInputs /\ rs = RsIdle /\ mg = MgIdle
    /\ net = NetIdle /\ LaterIdle

\* working.filter(...) on the record
selectForFetch ==
  /\ wl.stage = "merged"
  /\ wl' = [wl EXCEPT !.stage = "filtered",
                      !.listed = IF wl.region = "kr" THEN toProcess(wl.g)
                                 ELSE toProcessHK(wl.g)]
  /\ UNCHANGED <<hkVars, ov, rs, mg, net, laterVars>>

NextWorklist == selectForFetch

SpecWorklist == InitWorklist /\ [][NextWorklist]_vars

\* ===================================================================
\* The entity resolver (merge_enriched.js)
\* ===================================================================
\* Strings the resolver takes apart are sequences of tokens.  An nsuid is an
\* optional letter "D" followed by groups of four digits; a productCode is a
\* 3-character system, a 5-character game and a 1-character revision; a slug
\* is a sequence of hyphen-separated words, each a sequence of syllables; a
\* title is a sequence of words and punctuation marks.  <<>> is the missing
\* value (null, undefined or "").

\* toLowerCase / toUpperCase on the tokens of the model
Lower(t) ==
  CASE t = "Zel" -> "zel"
    [] t = "Zelda" -> "zelda"
    [] t = "ZELDA" -> "zelda"
    [] t = "Mario" -> "mario"
    [] t = "Nintendo Switch" -> "nintendo switch"
    [] t = "Nintendo Switch 2" -> "nintendo switch 2"
    [] OTHER -> t

Upper(t) ==
  CASE t = "hac" -> "HAC"
    [] t = "paaaa" -> "PAAAA"
    [] t = "a" -> "A"
    [] OTHER -> t

\* (s ?? '').toString().trim().toUpperCase() on a productCode
uc(s) == [k \in 1..Len(s) |-> Upper(s[k])]

IsDigitGroup(t) == t # "D"

normalizeNsuid(region, nsuidRaw) ==
  IF nsuidRaw = <<>> THEN <<>>
  ELSE IF region = "jp" /\ Head(nsuidRaw) = "D" THEN Tail(nsuidRaw)
  ELSE nsuidRaw

\* a prefix that is "0000" when the id has fewer than four digits
first4DigitsFromNsuid_Padded(nsuidRaw, region) ==
  LET digits == SelectSeq(normalizeNsuid(region, nsuidRaw), IsDigitGroup)
  IN  IF Len(digits) >= 1 THEN digits[1] ELSE "0000"

\* the first four digits, NULL when the id has fewer than four
first4DigitsFromNsuid(nsuidRaw, region) ==
  LET nsuid == normalizeNsuid(region, nsuidRaw)
      digits == SelectSeq(nsuid, IsDigitGroup)
  IN  IF nsuid = <<>> THEN NULL
      ELSE IF Len(digits) >= 1 THEN digits[1] ELSE NULL

\* s.length >= 8 ? s.slice(0, 8) : null
pcFirst8(pcode) == LET s == uc(pcode) IN IF Len(s) >= 2 THEN SubSeq(s, 1, 2) ELSE <<>>

\* s.length >= 8 ? s.slice(3, 8) : null
pcPos4to8(pcode) == LET s == uc(pcode) IN IF Len(s) >= 2 THEN <<s[2]>> ELSE <<>>

\* lower-case, non-alphanumerics to hyphens, no empty words
normalizeSlug(s) ==
  SelectSeq([w \in 1..Len(s) |-> [k \in 1..Len(s[w]) |-> Lower(s[w][k])]],
            LAMBDA w : w # <<>>)

getUrlKey(item) == normalizeSlug(item.urlKey)

RECURSIVE joinWords(_)
\* k.replace(/-/g, '')
joinWords(words) ==
  IF words = <<>> THEN <<>> ELSE Head(words) \o joinWords(Tail(words))

urlKeyLooseFromItem(item) == joinWords(getUrlKey(item))

IsWord(t) == t # "!"

\* lower-case, punctuation dropped, words separated by one space
normalizeTitle(s) ==
  LET words == SelectSeq(s, IsWord)
  IN  [k \in 1..Len(words) |-> Lower(words[k])]

normalizePlatform(s) == IF ~ Truthy(s) THEN NULL ELSE Lower(Trim(s))

\* a platform key that is the same for every platform
getPlatform_Any(item) == IF Truthy(item.platform) THEN "any" ELSE NULL

getPlatform(item) == normalizePlatform(item.platform)

\* isNonEmpty on a productCode
isNonEmptyCode(pcode) == pcode # <<>>

\* the maps of an index are functions from keys to positions in the
\* region's array (a Map value is a reference to an element of the array)
EmptyIndex == [k1 |-> <<>>, k2 |-> <<>>, k3 |-> <<>>, k4 |-> <<>>, kt |-> <<>>]

\* m.set(key, pos) whatever the map holds
setIfAbsent_Overwrites(m, key, pos) ==
  [x \in DOMAIN m \cup {key} |-> IF x = key THEN pos ELSE m[x]]

\* if (!m.has(key)) m.set(key, pos)
setIfAbsent(m, key, pos) == IF key \in DOMAIN m THEN m ELSE m @@ (key :> pos)

\* k4: push to the array of the key, or start one
pushTo(m, key, pos) ==
  IF key \in DOMAIN m THEN [m EXCEPT ![key] = Append(@, pos)]
  ELSE m @@ (key :> <<pos>>)

\* the body of the loop of buildRegionIndexes
indexItem(index, item, pos, region) ==
  LET f4 == first4DigitsFromNsuid(item.nsuid, region)
      pcR == item.productCode
      urlKeyL == urlKeyLooseFromItem(item)
      titleN == normalizeTitle(item.title)
      plat == getPlatform(item)
      exact == f4 # NULL /\ isNonEmptyCode(pcR) /\ Truthy(plat)
      pcU == uc(pcR)
      pc8 == pcFirst8(pcU)
      pc48 == pcPos4to8(pcU)
  IN  [k1 |-> IF exact THEN setIfAbsent(index.k1, <<f4, pcU, plat>>, pos)
              ELSE index.k1,
       k2 |-> IF exact /\ pc8 # <<>>
              THEN setIfAbsent(index.k2, <<f4, pc8, plat>>, pos) ELSE index.k2,
       k3 |-> IF exact /\ pc48 # <<>>
              THEN setIfAbsent(index.k3, <<f4, pc48, plat>>, pos) ELSE index.k3,
       k4 |-> IF urlKeyL # <<>> THEN pushTo(index.k4, urlKeyL, pos) ELSE index.k4,
       kt |-> IF titleN # <<>> /\ Truthy(plat)
              THEN setIfAbsent(index.kt, <<titleN, plat>>, pos) ELSE index.kt]

RECURSIVE indexFrom(_, _, _, _)
indexFrom(arr, region, pos, index) ==
  IF pos > Len(arr) THEN index
  ELSE indexFrom(arr, region, pos + 1, indexItem(index, arr[pos], pos, region))

buildRegionIndexes(arr, region) == indexFrom(arr, region, 1, EmptyIndex)

\* the strict list: normalized slugs, one per line of strict_urlkeys.txt
STRICT_URLKEYS == {normalizeSlug(<<<<"Zel">>, <<"da">>>>)}

NoMatch == [pos |-> 0, rule |-> "none"]

\* the prefix of a candidate: the nsuid_<region> field it carries
candF4(cand) == first4DigitsFromNsuid(cand.nsuid, cand.region)

\* the tie-break that takes the last candidate with the prefix
pickCandidate_LastWithPrefix(arr, candidates, f4) ==
  LET same == {k \in 1..Len(candidates) : candF4(arr[candidates[k]]) = f4}
  IN  IF f4 # NULL /\ same # {}
      THEN candidates[CHOOSE k \in same : \A j \in same : j <= k]
      ELSE candidates[1]

\* one candidate: that one; else the first with the prefix f4; else the first
pickCandidate(arr, candidates, f4) ==
  LET same == {k \in 1..Len(candidates) : candF4(arr[candidates[k]]) = f4}
  IN  IF Len(candidates) = 1 THEN candidates[1]
      ELSE IF f4 # NULL /\ same # {}
      THEN candidates[CHOOSE k \in same : \A j \in same : k <= j]
      ELSE candidates[1]

\* the rules of the normal logic, each NoMatch when it has no hit
matchExact(regionIdx, usItem) ==
  LET f4 == first4DigitsFromNsuid(usItem.nsuid, "us")
      pcUS == usItem.productCode
      platUS == getPlatform(usItem)
      pcU == uc(pcUS)
      pc8 == pcFirst8(pcU)
      pc48 == pcPos4to8(pcU)
  IN  IF ~ (f4 # NULL /\ isNonEmptyCode(pcUS) /\ Truthy(platUS)) THEN NoMatch
      ELSE IF <<f4, pcU, platUS>> \in DOMAIN regionIdx.k1
      THEN [pos |-> regionIdx.k1[<<f4, pcU, platUS>>], rule |-> "k1"]
      ELSE IF pc8 # <<>> /\ <<f4, pc8, platUS>> \in DOMAIN regionIdx.k2
      THEN [pos |-> regionIdx.k2[<<f4, pc8, platUS>>], rule |-> "k2"]
      ELSE IF pc48 # <<>> /\ <<f4, pc48, platUS>> \in DOMAIN regionIdx.k3
      THEN [pos |-> regionIdx.k3[<<f4, pc48, platUS>>], rule |-> "k3"]
      ELSE NoMatch

matchUrlKey(regionIdx, arr, usItem, rule) ==
  LET urlKeyUSL == urlKeyLooseFromItem(usItem)
      f4 == first4DigitsFromNsuid(usItem.nsuid, "us")
  IN  IF urlKeyUSL # <<>> /\ urlKeyUSL \in DOMAIN regionIdx.k4
      THEN [pos |-> pickCandidate(arr, regionIdx.k4[urlKeyUSL], f4),
            rule |-> rule]
      ELSE NoMatch

matchTitle(regionIdx, usItem) ==
  LET titleUS == normalizeTitle(usItem.title)
      platUS == getPlatform(usItem)
  IN  IF titleUS # <<>> /\ Truthy(platUS)
         /\ <<titleUS, platUS>> \in DOMAIN regionIdx.kt
      THEN [pos |-> regionIdx.kt[<<titleUS, platUS>>], rule |-> "title"]
      ELSE NoMatch

\* tryMatch that tries the title before the loose slug
tryMatch_TitleBeforeUrlKey(regionIdx, arr, usItem, strictUrlKeyHit) ==
  IF strictUrlKeyHit /\ getUrlKey(usItem) # <<>>
  THEN matchUrlKey(regionIdx, arr, usItem, "strict-urlKey")
  ELSE IF matchExact(regionIdx, usItem) # NoMatch
  THEN matchExact(regionIdx, usItem)
  ELSE IF matchTitle(regionIdx, usItem) # NoMatch
  THEN matchTitle(regionIdx, usItem)
  ELSE matchUrlKey(regionIdx, arr, usItem, "k4")

\* tryMatch that falls back to the normal logic when the strict rule misses
tryMatch_StrictFallsBack(regionIdx, arr, usItem, strictUrlKeyHit) ==
  IF strictUrlKeyHit /\ getUrlKey(usItem) # <<>>
     /\ matchUrlKey(regionIdx, arr, usItem, "strict-urlKey") # NoMatch
  THEN matchUrlKey(regionIdx, arr, usItem, "strict-urlKey")
  ELSE IF matchExact(regionIdx, usItem) # NoMatch
  THEN matchExact(regionIdx, usItem)
  ELSE IF matchUrlKey(regionIdx, arr, usItem, "k4") # NoMatch
  THEN matchUrlKey(regionIdx, arr, usItem, "k4")
  ELSE matchTitle(regionIdx, usItem)

\* arr is the array the positions of regionIdx point into
tryMatch(regionIdx, arr, usItem, strictUrlKeyHit) ==
  IF strictUrlKeyHit /\ getUrlKey(usItem) # <<>>
       /\ urlKeyLooseFromItem(usItem) # <<>>
  THEN matchUrlKey(regionIdx, arr, usItem, "strict-urlKey")
  ELSE IF matchExact(regionIdx, usItem) # NoMatch
  THEN matchExact(regionIdx, usItem)
  ELSE IF matchUrlKey(regionIdx, arr, usItem, "k4") # NoMatch
  THEN matchUrlKey(regionIdx, arr, usItem, "k4")
  ELSE matchTitle(regionIdx, usItem)

\* const strictHit = !!(uk && STRICT_URLKEYS.has(uk))
strictHit(item) == getUrlKey(item) # <<>> /\ getUrlKey(item) \in STRICT_URLKEYS

\* ---------------------------------------------- the resolver's inputs
SwitchLower == "nintendo switch"
Switch2 == "Nintendo Switch 2"

IdA == <<"7001", "0001">>
IdB == <<"7002", "0002">>
CodeA == <<"HAC", "PAAAA", "A">>
CodeALower == <<"hac", "paaaa", "a">>
CodeRevB == <<"HAC", "PAAAA", "B">>
CodeSysB == <<"BEE", "PAAAA", "B">>
SlugZelda == <<<<"zel", "da">>>>
SlugZelDa == <<<<"Zel">>, <<"da">>>>
SlugMario == <<<<"mario">>>>

\* the id a region writes: JP ids carry a leading D
RegionId(region, id) == IF region = "jp" THEN <<"D">> \o id ELSE id

Item(region, id, code, slug, title, platform, active) ==
  [region |-> region, nsuid |-> id, productCode |-> code, urlKey |-> slug,
   title |-> title, platform |-> platform, active_in_base |-> active]

\* canonical records: with and without id, code and platform, on and off
\* the strict list
ResolverUSItems ==
  {Item("us", id, code, slug, <<"Zelda">>, platform, TRUE) :
     id \in {IdA, <<>>}, code \in {CodeALower, <<>>},
     slug \in {SlugZelda, SlugZelDa}, platform \in {Switch, NULL}}

\* region records that hit on K1, on K2, on K3, on K4 (without and with the
\* canonical prefix), on the title, and on nothing
ResolverRegionItems(region) ==
  {Item(region, RegionId(region, IdA), CodeA, SlugMario, <<"Mario">>, Switch, TRUE),
   Item(region, RegionId(region, IdA), CodeRevB, SlugMario, <<"Mario">>, Switch, TRUE),
   Item(region, RegionId(region, IdA), CodeSysB, SlugMario, <<"Mario">>, SwitchLower, TRUE),
   Item(region, RegionId(region, IdB), <<>>, SlugZelDa, <<"Mario">>, Switch2, TRUE),
   Item(region, RegionId(region, IdA), <<>>, SlugZelda, <<"Mario">>, Switch2, TRUE),
   Item(region, RegionId(region, IdB), <<>>, SlugMario, <<"ZELDA", "!">>, SwitchLower, TRUE),
   Item(region, RegionId(region, IdB), <<>>, SlugMario, <<"Mario">>, Switch2, TRUE)}

ResolverArrays(region) ==
  UNION {[1..n -> ResolverRegionItems(region)] : n \in 0..MaxCandidates}

ResolverInputs ==
  UNION {[stage : {"loaded"}, region : {region}, arr : ResolverArrays(region),
          us : ResolverUSItems, idx : {EmptyIndex}, res : {NoMatch}] :
           region \in {"jp", "eu"}}

InitResolver ==
  InitHK /\ ov = OvIdle /\ wl = WlIdle /\ rs \in ResolverInputs /\ mg = MgIdle
    /\ net = NetIdle /\ LaterIdle

\* regionIdx[r] = buildRegionIndexes(regionData[r], r)
buildIndex ==
  /\ rs.stage = "loaded"
  /\ rs' = [rs EXCEPT !.stage = "indexed",
                      !.idx = buildRegionIndexes(rs.arr, rs.region)]
  /\ UNCHANGED <<hkVars, ov, wl, mg, net, laterVars>>

\* tryMatch(regionIdx[r], item, { strictUrlKeyHit: strictHit })
resolve ==
  /\ rs.stage = "indexed"
  /\ rs' = [rs EXCEPT !.stage = "resolved",
                      !.res = tryMatch(rs.idx, rs.arr, rs.us, strictHit(rs.us))]
  /\ UNCHANGED <<hkVars, ov, wl, mg, net, laterVars>>

NextResolver == buildIndex \/ resolve

SpecResolver == InitResolver /\ [][NextResolver]_vars

\* ===================================================================
\* The multi-region merge (merge_enriched.js, main)
\* ===================================================================
REGIONS == <<"jp", "hk", "eu">>
REGION_CODES_ALL == <<"us", "jp", "hk", "eu">>
RegionSet == Range(REGIONS)
AllRegionSet == Range(REGION_CODES_ALL)

\* const item = { ...orig, __rowId: rowId } with its __activeRegions; nsuidOf
\* and productCodeOf are the nsuid_<region> and productCode_<region> fields
\* of the row, matched the position of the region record appended to it
startRow(orig, rowId) ==
  [region |-> "us", nsuid |-> orig.nsuid, productCode |-> orig.productCode,
   urlKey |-> orig.urlKey, title |-> orig.title, platform |-> orig.platform,
   active_in_base |-> orig.active_in_base, rowId |-> rowId,
   nsuidOf |-> [rc \in AllRegionSet |-> IF rc = "us" THEN orig.nsuid ELSE <<>>],
   productCodeOf |->
     [rc \in AllRegionSet |-> IF rc = "us" THEN orig.productCode ELSE <<>>],
   activeRegions |-> IF orig.active_in_base THEN {"us"} ELSE {},
   matched |-> [r \in RegionSet |-> 0]]

\* an append that raises the flag for every matched record
appendRegionFields_RaisesAlways(base, region, matched) ==
  LET nsuidVal == normalizeNsuid(region, matched.nsuid)
  IN  [base EXCEPT
         !.nsuidOf[region] = IF nsuidVal # <<>> THEN nsuidVal ELSE @,
         !.productCodeOf[region] =
            IF matched.productCode # <<>> THEN uc(matched.productCode) ELSE @,
         !.platform =
            IF ~ isNonEmpty(base.platform) /\ isNonEmpty(matched.platform)
            THEN Trim(matched.platform) ELSE @,
         !.active_in_base = TRUE,
         !.activeRegions =
            IF matched.active_in_base THEN @ \cup {region} ELSE @]

appendRegionFields(base, region, matched) ==
  LET nsuidVal == normalizeNsuid(region, matched.nsuid)
  IN  [base EXCEPT
         !.nsuidOf[region] = IF nsuidVal # <<>> THEN nsuidVal ELSE @,
         !.productCodeOf[region] =
            IF matched.productCode # <<>> THEN uc(matched.productCode) ELSE @,
         !.platform =
            IF ~ isNonEmpty(base.platform) /\ isNonEmpty(matched.platform)
            THEN Trim(matched.platform) ELSE @,
         !.active_in_base = IF matched.active_in_base THEN TRUE ELSE @,
         !.activeRegions =
            IF matched.active_in_base THEN @ \cup {region} ELSE @]

RECURSIVE mergeRegions(_, _, _, _, _)
\* for (const r of REGIONS): tryMatch, appendRegionFields, seen[r].add
mergeRegions(st, k, data, idxs, strict) ==
  IF k > Len(REGIONS) THEN st
  ELSE LET r == REGIONS[k]
           res == tryMatch(idxs[r], data[r], st.row, strict)
           hit == data[r][res.pos]
           idN == normalizeNsuid(r, hit.nsuid)
       IN  IF res = NoMatch THEN mergeRegions(st, k + 1, data, idxs, strict)
           ELSE mergeRegions(
                  [row |-> [appendRegionFields(st.row, r, hit)
                              EXCEPT !.matched[r] = res.pos],
                   seen |-> [st.seen EXCEPT ![r] =
                               IF idN # <<>> THEN @ \cup {idN} ELSE @]],
                  k + 1, data, idxs, strict)

\* delete nsuid_<rc> for every region code not in __activeRegions
pruneRow(row) ==
  [row EXCEPT !.nsuidOf =
     [rc \in AllRegionSet |-> IF rc \in row.activeRegions THEN @[rc] ELSE <<>>]]

\* an EU record no canonical row matched, cloned into the output
cloneRow(g) ==
  [region |-> "eu", nsuid |-> g.nsuid, productCode |-> g.productCode,
   urlKey |-> g.urlKey, title |-> g.title, platform |-> g.platform,
   active_in_base |-> g.active_in_base, rowId |-> 0,
   nsuidOf |-> [rc \in AllRegionSet |-> IF rc = "eu" THEN g.nsuid ELSE <<>>],
   productCodeOf |->
     [rc \in AllRegionSet |-> IF rc = "eu" THEN g.productCode ELSE <<>>],
   activeRegions |-> IF g.active_in_base THEN {"eu"} ELSE {},
   matched |-> [r \in RegionSet |-> 0]]

\* regionData[r].filter(g => idN && !seen[r].has(idN))
leftovers(arr, region, seenIds) ==
  SelectSeq(arr, LAMBDA g : normalizeNsuid(region, g.nsuid) # <<>>
                            /\ normalizeNsuid(region, g.nsuid) \notin seenIds)

\* ------------------------------------------------- the merge's inputs
IdC == <<"7002", "0003">>

\* the canonical master: one active record, and one inactive record with
\* the same loose slug
MergeUSItems ==
  {Item("us", IdA, CodeALower, SlugZelda, <<"Zelda">>, Switch, TRUE),
   Item("us", IdB, <<>>, SlugZelDa, <<"Zelda">>, NULL, FALSE)}

\* a region master: an active record of the same game, an inactive record
\* of the same game, an inactive record of another game
MergeRegionItems(region) ==
  {Item(region, RegionId(region, IdA), CodeA, SlugZelda, <<"Zelda">>, Switch, TRUE),
   Item(region, RegionId(region, IdC), <<>>, SlugZelda, <<"Zelda">>, Switch2, FALSE),
   Item(region, RegionId(region, IdB), <<>>, SlugMario, <<"Mario">>, Switch2, FALSE)}

\* the arrays of a master file: no two records with the same nsuid
Rows(S) ==
  {s \in UNION {[1..n -> S] : n \in 0..MaxRows} :
     \A i, j \in 1..Len(s) : i # j => s[i].nsuid # s[j].nsuid}

MergeInputs ==
  {[stage |-> "loaded", us |-> us, data |-> [jp |-> jp, hk |-> hk, eu |-> eu],
    idx |-> [r \in RegionSet |-> EmptyIndex], next |-> 1, merged |-> <<>>,
    seen |-> [r \in RegionSet |-> {}]] :
     us \in Rows(MergeUSItems), jp \in Rows(MergeRegionItems("jp")),
     hk \in Rows(MergeRegionItems("hk")), eu \in Rows(MergeRegionItems("eu"))}

InitMerge ==
  InitHK /\ ov = OvIdle /\ wl = WlIdle /\ rs = RsIdle /\ mg \in MergeInputs
    /\ net = NetIdle /\ LaterIdle

\* for (const r of REGIONS) regionIdx[r] = buildRegionIndexes(regionData[r], r)
indexRegions ==
  /\ mg.stage = "loaded"
  /\ mg' = [mg EXCEPT !.stage = "indexed",
                      !.idx = [r \in RegionSet |->
                                 buildRegionIndexes(mg.data[r], r)]]
  /\ UNCHANGED <<hkVars, ov, wl, rs, net, laterVars>>

\* one call of the us.map callback: match every region, prune
mergeRow ==
  /\ mg.stage = "indexed"
  /\ mg.next <= Len(mg.us)
  /\ LET item == startRow(mg.us[mg.next], mg.next)
         st == mergeRegions([row |-> item, seen |-> mg.seen], 1, mg.data,
                            mg.idx, strictHit(item))
     IN  mg' = [mg EXCEPT !.next = @ + 1,
                          !.merged = Append(@, pruneRow(st.row)),
                          !.seen = st.seen]
  /\ UNCHANGED <<hkVars, ov, wl, rs, net, laterVars>>

\* after the map: append the EU leftovers and write the output file
appendLeftovers ==
  /\ mg.stage = "indexed"
  /\ mg.next > Len(mg.us)
  /\ LET euLeftovers == leftovers(mg.data["eu"], "eu", mg.seen["eu"])
     IN  mg' = [mg EXCEPT
                  !.stage = "written",
                  !.merged = @ \o [k \in 1..Len(euLeftovers) |->
                                     cloneRow(euLeftovers[k])]]
  /\ UNCHANGED <<hkVars, ov, wl, rs, net, laterVars>>

NextMerge == indexRegions \/ mergeRow \/ appendLeftovers

SpecMerge == InitMerge /\ [][NextMerge]_vars

\* ===================================================================
\* The limiter and the requests of the HK fetch engine
\* ===================================================================
\* One worker of the HK engine at the level of its HTTP requests.  wire
\* is the number of requests handed to https.get, modulo 2; totalRequests
\* is stats.totalRequests, kept in 1..CooldownEvery once it has left 0
\* (only its remainder by CooldownEvery is read).
NetStart ==
  [stage |-> "boot", tokens |-> Burst, wire |-> 0, totalRequests |-> 0,
   phase |-> "idle", loopAttempt |-> 0, attempt |-> 1,
   redirects |-> FetchMaxRedirects]

InitNet ==
  InitHK /\ ov = OvIdle /\ wl = WlIdle /\ rs = RsIdle /\ mg = MgIdle
    /\ net = NetStart /\ LaterIdle

put(n) == (n + 1) % 2
bump(n) == IF n = CooldownEvery THEN 1 ELSE n + 1

\* setInterval(() => tokens = Math.min(burst, tokens + rate), 1000)
refill ==
  /\ net.stage # "off"
  /\ net' = [net EXCEPT !.tokens = Min(Burst, @ + Rate)]
  /\ UNCHANGED <<hkVars, ov, wl, rs, mg, laterVars>>

\* await warmup() at the start of main: an https.get of the site root
warmup ==
  /\ net.stage = "boot"
  /\ net' = [net EXCEPT !.stage = "run", !.wire = put(@)]
  /\ UNCHANGED <<hkVars, ov, wl, rs, mg, laterVars>>

\* maybeCooldownAndRefresh: a warm-up request every CooldownEvery requests
refreshDue(n) == n.totalRequests > 0 /\ n.totalRequests % CooldownEvery = 0
afterRefresh(n) == IF refreshDue(n) THEN [n EXCEPT !.wire = put(@)] ELSE n

\* a worker enters getProductCodeForNsuid / getPlatformForNsuid
callFetch ==
  /\ net.stage = "run"
  /\ net.phase = "idle"
  /\ net' = [net EXCEPT !.phase = "take", !.loopAttempt = 0, !.attempt = 1,
                        !.redirects = FetchMaxRedirects]
  /\ UNCHANGED <<hkVars, ov, wl, rs, mg, laterVars>>

\* fetchText: limiter.take() returns and https.get is called
takeAndGet ==
  /\ net.phase = "take"
  /\ net.tokens >= TokenCost
  /\ net' = [net EXCEPT !.tokens = @ - TokenCost, !.wire = put(@),
                        !.phase = "sent"]
  /\ UNCHANGED <<hkVars, ov, wl, rs, mg, laterVars>>

\* a 3xx with a location: fetchText calls itself for the next URL
redirected ==
  /\ net.phase = "sent"
  /\ net.redirects > 0
  /\ net' = [net EXCEPT !.phase = "take", !.redirects = @ - 1]
  /\ UNCHANGED <<hkVars, ov, wl, rs, mg, laterVars>>

\* 403, 503 or a denial page, attempts left: refresh, then fetchText again
denied ==
  /\ net.phase = "sent"
  /\ net.attempt < FetchMaxAttempts
  /\ net' = [afterRefresh(net) EXCEPT !.phase = "take", !.attempt = @ + 1]
  /\ UNCHANGED <<hkVars, ov, wl, rs, mg, laterVars>>

\* fetchText resolves with a page: the fetcher returns FOUND or NO_CODE
answered ==
  /\ net.phase = "sent"
  /\ net' = [net EXCEPT !.phase = "idle", !.totalRequests = bump(@)]
  /\ UNCHANGED <<hkVars, ov, wl, rs, mg, laterVars>>

\* fetchText rejects: 404 ends the fetcher, anything else goes round its
\* loop, with a refresh before the last round is given up
rejected(notFound) ==
  /\ net.phase = "sent"
  /\ net' =
       IF notFound THEN [net EXCEPT !.phase = "idle"]
       ELSE IF net.loopAttempt = Retries
       THEN [afterRefresh(net) EXCEPT !.phase = "idle"]
       ELSE [net EXCEPT !.phase = "take", !.loopAttempt = @ + 1,
                        !.attempt = 1, !.redirects = FetchMaxRedirects]
  /\ UNCHANGED <<hkVars, ov, wl, rs, mg, laterVars>>

\* the server accepts the request and never sends a response: https.get is
\* called without a timeout, so neither the callback nor 'error' ever fires
\* and the promise of fetchText stays pending
unanswered ==
  /\ net.phase = "sent"
  /\ net' = [net EXCEPT !.phase = "pending"]
  /\ UNCHANGED <<hkVars, ov, wl, rs, mg, laterVars>>

\* what the network does with a request that is on the wire
responds ==
  \/ redirected
  \/ denied
  \/ answered
  \/ \E notFound \in BOOLEAN : rejected(notFound)
  \/ unanswered

NextNet ==
  \/ refill
  \/ warmup
  \/ callFetch
  \/ takeAndGet
  \/ redirected
  \/ denied
  \/ answered
  \/ \E notFound \in BOOLEAN : rejected(notFound)
  \/ unanswered

SpecNet == InitNet /\ [][NextNet]_vars

\* the event loop runs every ready callback and timer, and the network
\* settles every request one way or the other
SpecNetFair ==
  /\ SpecNet
  /\ WF_vars(warmup)
  /\ WF_vars(callFetch)
  /\ WF_vars(takeAndGet)
  /\ WF_vars(refill)
  /\ WF_vars(responds)

\* ===================================================================
\* One fetch of the HK engine at the level of its HTTP responses
\* ===================================================================
\* A response as fetchText reads it: the status code and what the body
\* holds: a denial page ("Access Denied", "Reference #..."), a product
\* page with the code attribute, or a page without it.
Statuses == {200, 403, 404, 429, 500, 503}
Bodies == {"DENIED", "CODE", "NOCODE"}
Responses == [status : Statuses, body : Bodies]

\* /Access Denied|Reference #[0-9a-f]+/i.test(html)
looksDenied(r) == r.body = "DENIED"

extractProductCodeFromHtml(body) == IF body = "CODE" THEN PageCode ELSE NULL
extractPlatformFromHtml(body) == IF body = "CODE" THEN Switch ELSE NULL

\* the requests one call of the fetcher can make: FetchMaxAttempts in each
\* of its MaxAttempts rounds
MaxRequests == FetchMaxAttempts * MaxAttempts

\* fetchText(url, attempt, 3, 5): resps[k] answers its request; used is the
\* number of requests answered when it settles
RECURSIVE fetchText(_, _, _)
fetchText(resps, k, attempt) ==
  LET r == resps[k]
  IN  IF (r.status = 403 \/ r.status = 503 \/ looksDenied(r))
           /\ attempt < FetchMaxAttempts
        THEN fetchText(resps, k + 1, attempt + 1)
      ELSE IF r.status >= 400
        THEN [outcome |-> IF r.status = 404 THEN Http404 ELSE Failed, used |-> k]
      ELSE [outcome |-> Page(extractProductCodeFromHtml(r.body),
                             extractPlatformFromHtml(r.body)),
            used |-> k]

\* what the rounds of getProductCodeForNsuid get from fetchText, each round
\* going on where the one before stopped
RECURSIVE attemptsFrom(_, _, _)
attemptsFrom(resps, k, round) ==
  IF round > MaxAttempts THEN <<>>
  ELSE LET t == fetchText(resps, k + 1, 1)
       IN  <<t.outcome>> \o attemptsFrom(resps, t.used, round + 1)

\* the requests the fetcher makes before it returns
RECURSIVE requestsMade(_, _, _)
requestsMade(resps, k, round) ==
  IF round > MaxAttempts THEN k
  ELSE LET t == fetchText(resps, k + 1, 1)
       IN  IF t.outcome.kind = "FAILED"
             THEN requestsMade(resps, t.used, round + 1)
             ELSE t.used

\* the server answers the first k requests with a and every later one with b
ResponseRuns ==
  {[n \in 1..MaxRequests |-> IF n <= k THEN a ELSE b] :
     k \in 0..MaxRequests, a \in Responses, b \in Responses}

FetchInputs ==
  [stage : {"ready"}, resps : ResponseRuns, productCode_hk : {UNDEF, NULL},
   result : {""}]

InitFetch ==
  InitHK /\ ov = OvIdle /\ wl = WlIdle /\ rs = RsIdle /\ mg = MgIdle
    /\ net = NetIdle /\ ft \in FetchInputs /\ kr = KrIdle /\ gate = GateIdle
    /\ cd = CdIdle

\* pass 1 on the record: res = await getProductCodeForNsuid(nsuid), then
\* working[i].productCode_hk = res.productCode
fetchRecord ==
  /\ ft.stage = "ready"
  /\ LET res == getProductCodeForNsuid(attemptsFrom(ft.resps, 0, 1))
     IN  ft' = [ft EXCEPT !.stage = "fetched",
                          !.productCode_hk = res.productCode,
                          !.result = res.result]
  /\ UNCHANGED <<hkVars, ov, wl, rs, mg, net, kr, gate, cd>>

NextFetch == fetchRecord

SpecFetch == InitFetch /\ [][NextFetch]_vars

\* ===================================================================
\* Runs of the HK engine that may be killed
\* ===================================================================
\* a kill that leaves the master file truncated
Kill_LosesMaster ==
  /\ pc \in {"pass1", "pass2"}
  /\ pc' = "idle"
  /\ master' = NoRows
  /\ existingMaster' = NoRows
  /\ working' = NoRows
  /\ toProcessCode' = <<>>
  /\ toProcessPlatformOnly' = <<>>
  /\ idx' = 0
  /\ inflight' = {}
  /\ processed' = 0
  /\ platDone' = 0
  /\ UNCHANGED <<snapshot, run, inBase, lastResult, sameBase>>
  /\ UNCHANGED <<fault, nonHK>>

\* the process is killed between two completions of a fetch pass: its
\* memory is lost, the source file and the two output files stay as they are
Kill ==
  /\ pc \in {"pass1", "pass2"}
  /\ pc' = "idle"
  /\ existingMaster' = NoRows
  /\ working' = NoRows
  /\ toProcessCode' = <<>>
  /\ toProcessPlatformOnly' = <<>>
  /\ idx' = 0
  /\ inflight' = {}
  /\ processed' = 0
  /\ platDone' = 0
  /\ UNCHANGED <<master, snapshot, run, inBase, lastResult, sameBase>>
  /\ UNCHANGED <<fault, nonHK>>

\* the source views of these runs: rows that leave the platform blank
CrashRows == {r \in BaseRows : r.platform = ""}
CrashViews == UNION {[S -> CrashRows] : S \in SUBSET Ids}

\* a run started after a finished run, a killed run or none
MergeCrash(b) == run < MaxRunsCrash /\ main(b)

NextCrash ==
  \/ \E b \in CrashViews : MergeCrash(b)
  \/ \E pos \in 1..Len(IdOrder) :
       \E resps \in AttemptRuns : Pass1Complete(pos, resps)
  \/ Pass1Resolve
  \/ \E pos \in 1..Len(IdOrder) :
       \E r \in AttemptOutcomes : Pass2Complete(pos, r)
  \/ FinalSave
  \/ Kill

SpecCrash == Init /\ [][NextCrash]_vars

\* ===================================================================
\* The KR single-pass engine on one record, run after run
\* ===================================================================
\* kr.row is the record as the master file holds it (before its first run:
\* the empty object), or, at stage "merged", as the run holds it in working
KrRow(code, platform, language, active) ==
  [productCode_kr |-> code, platform |-> platform,
   supportLanguage |-> language, active_in_base |-> active]

\* the fields a source row can carry; {} stands for an identity the source
\* view does not hold
KrBaseRows ==
  [productCode_kr : {UNDEF, "", SourceCode}, platform : {UNDEF, "", Switch},
   supportLanguage : {UNDEF, "", "en"}]
KrNoBase ==
  [productCode_kr |-> UNDEF, platform |-> UNDEF, supportLanguage |-> UNDEF]

KrStart == [stage |-> "new", row |-> KrRow(UNDEF, UNDEF, UNDEF, FALSE),
            listed |-> FALSE]

InitKR ==
  InitHK /\ ov = OvIdle /\ wl = WlIdle /\ rs = RsIdle /\ mg = MgIdle
    /\ net = NetIdle /\ ft = FtIdle /\ kr = KrStart /\ gate = GateIdle
    /\ cd = CdIdle

pickSupportLanguage(baseVal, priorVal) ==
  IF IsNonBlankString(baseVal) THEN baseVal
  ELSE IF baseVal = "" THEN ""
  ELSE IF priorVal = "" THEN ""
  ELSE IF priorVal # UNDEF THEN priorVal
  ELSE baseVal

\* the merge loop body on the record: merged = { ...prior }, then the picks
krMerged(base, prior, active) ==
  KrRow(pick(base.productCode_kr, prior.productCode_kr),
        pick(base.platform, prior.platform),
        pickSupportLanguage(base.supportLanguage, prior.supportLanguage),
        active)

\* what getAllDetailsForNsuid returns
KrOutcomes ==
  [result : {"OK"}, productCode : {NULL, PageCode}, platform : {NULL, Switch},
   supportLanguage : {"", "en"}]
  \cup {[result |-> "NOT_FOUND", productCode |-> "", platform |-> NULL,
         supportLanguage |-> NULL],
        [result |-> "ERROR", productCode |-> NULL, platform |-> NULL,
         supportLanguage |-> NULL]}

\* the callback of the pool on the record's row
krApplied(row, res) ==
  IF res.result = "NOT_FOUND" THEN [row EXCEPT !.productCode_kr = ""]
  ELSE IF res.result = "OK" THEN
    LET code == IF Truthy(res.productCode)
                  THEN IF ~ Truthy(row.productCode_kr)
                         THEN res.productCode ELSE row.productCode_kr
                ELSE IF row.productCode_kr \in {UNDEF, NULL} THEN NULL
                ELSE row.productCode_kr
        platform == IF ~ Truthy(row.platform) /\ Truthy(res.platform)
                      THEN res.platform ELSE row.platform
        codeNow == IF Truthy(code) THEN code ELSE res.productCode
        language ==
          IF row.supportLanguage \in {UNDEF, NULL} /\ IsNonBlankString(codeNow)
            THEN res.supportLanguage ELSE row.supportLanguage
    IN  KrRow(code, platform, language, row.active_in_base)
  ELSE row

\* a run starts: the source view holds the identity with row base
krMergeActive(base) ==
  /\ kr.stage \in {"new", "saved"}
  /\ LET merged == krMerged(base, kr.row, TRUE)
     IN  kr' = [stage |-> "merged", row |-> merged, listed |-> toProcess(merged)]
  /\ UNCHANGED <<hkVars, ov, wl, rs, mg, net, ft, gate, cd>>

\* a run starts: the identity is in the master only
krMergeInactive ==
  /\ kr.stage = "saved"
  /\ LET merged == krMerged(KrNoBase, kr.row, FALSE)
     IN  kr' = [stage |-> "merged", row |-> merged, listed |-> toProcess(merged)]
  /\ UNCHANGED <<hkVars, ov, wl, rs, mg, net, ft, gate, cd>>

\* the fetch of the record completes and the run saves the master
krApply(res) ==
  /\ kr.stage = "merged"
  /\ kr.listed
  /\ kr' = [kr EXCEPT !.stage = "saved", !.row = krApplied(kr.row, res)]
  /\ UNCHANGED <<hkVars, ov, wl, rs, mg, net, ft, gate, cd>>

\* the record is not in toProcess: the run saves it as merged
krSave ==
  /\ kr.stage = "merged"
  /\ ~ kr.listed
  /\ kr' = [kr EXCEPT !.stage = "saved"]
  /\ UNCHANGED <<hkVars, ov, wl, rs, mg, net, ft, gate, cd>>

NextKR ==
  \/ \E base \in KrBaseRows : krMergeActive(base)
  \/ krMergeInactive
  \/ \E res \in KrOutcomes : krApply(res)
  \/ krSave

SpecKR == InitKR /\ [][NextKR]_vars

\* ===================================================================
\* The pacing gate of the prices enricher
\* ===================================================================
\* Times are milliseconds.  gate.now is the clock, gate.lastRequestAt the
\* variable of that name, and each country task of the pool is waiting for
\* one thing: its start delay, the sleep of politeGate, or its response.
Tasks == 1..PoolTasks
JitterMs == {75, 200}
StartDelayMs == {200, 1000}
ResponseMs == {100, 600}
JitterMax == 200
StartTime == MinRequestGapMs + JitterMax

GateInputs ==
  {[stage |-> "run", now |-> StartTime, lastRequestAt |-> 0,
    tasks |-> [t \in Tasks |->
                 [phase |-> "delay", at |-> StartTime + d[t], pages |-> 0]]] :
     d \in [Tasks -> StartDelayMs]}

InitGate ==
  InitHK /\ ov = OvIdle /\ wl = WlIdle /\ rs = RsIdle /\ mg = MgIdle
    /\ net = NetIdle /\ ft = FtIdle /\ kr = KrIdle /\ gate \in GateInputs
    /\ cd = CdIdle

\* the timer or response of task t is the next event of the loop
Waiting(g, t) == g.tasks[t].phase \in {"delay", "sleeping", "fetching"}
Due(g, t) ==
  /\ Waiting(g, t)
  /\ \A u \in Tasks : Waiting(g, u) => g.tasks[t].at <= g.tasks[u].at

\* fetch(url) is called at time now; the response takes r
requestAt(g, t, now, r) ==
  [g EXCEPT !.now = now, !.lastRequestAt = now,
            !.tasks[t].phase = "fetching", !.tasks[t].at = now + r]

\* politeGate called by task t at time now with jitter j: it sleeps for
\* need + jitter, or sets lastRequestAt at once and the request goes out
politeGate(g, t, now, j, r) ==
  LET since == now - g.lastRequestAt
      need == MinRequestGapMs - since
  IN  IF need + j > 0
        THEN [g EXCEPT !.now = now, !.tasks[t].phase = "sleeping",
                       !.tasks[t].at = now + need + j]
        ELSE requestAt(g, t, now, r)

\* getPricesForCountry: the start delay is over, the first page is asked for
startCountry(t, j, r) ==
  /\ gate.stage = "run"
  /\ gate.tasks[t].phase = "delay"
  /\ Due(gate, t)
  /\ gate' = politeGate(gate, t, gate.tasks[t].at, j, r)
  /\ UNCHANGED <<hkVars, ov, wl, rs, mg, net, ft, kr, cd>>

\* the sleep of politeGate is over: lastRequestAt = Date.now(), then fetch
gateWakes(t, r) ==
  /\ gate.stage = "run"
  /\ gate.tasks[t].phase = "sleeping"
  /\ Due(gate, t)
  /\ gate' = requestAt(gate, t, gate.tasks[t].at, r)
  /\ UNCHANGED <<hkVars, ov, wl, rs, mg, net, ft, kr, cd>>

\* the page of task t arrives: the task asks for its next page, or is done
pageArrives(t, j, r) ==
  /\ gate.stage = "run"
  /\ gate.tasks[t].phase = "fetching"
  /\ Due(gate, t)
  /\ LET now == gate.tasks[t].at
         got == [gate EXCEPT !.tasks[t].pages = @ + 1]
     IN  gate' = IF got.tasks[t].pages < MaxPages
                   THEN politeGate(got, t, now, j, r)
                   ELSE [got EXCEPT !.now = now, !.tasks[t].phase = "done"]
  /\ UNCHANGED <<hkVars, ov, wl, rs, mg, net, ft, kr, cd>>

NextGate ==
  \/ \E t \in Tasks, j \in JitterMs, r \in ResponseMs : startCountry(t, j, r)
  \/ \E t \in Tasks, r \in ResponseMs : gateWakes(t, r)
  \/ \E t \in Tasks, j \in JitterMs, r \in ResponseMs : pageArrives(t, j, r)

SpecGate == InitGate /\ [][NextGate]_vars

\* ===================================================================
\* One fetch of the US engine
\* ===================================================================
\* what https.get gives the US fetcher: a response with any status, whose
\* body may be empty, or a network error
StatusesUS == Statuses \cup {301, 302, 502}
BodiesUS == Bodies \cup {""}
ResponsesUS ==
  [error : {FALSE}, status : StatusesUS, body : BodiesUS]
  \cup {[error |-> TRUE, status |-> 0, body |-> ""]}

\* extractProductCodeFromHtml of the US engine
extractProductCodeUS(html) == IF html = "CODE" THEN PageCode ELSE NULL

\* fetchText resolves {html, status} for every status and rejects on a
\* network error only; getProductCodeForUrl reads html alone
getProductCodeForUrl(r) ==
  LET html == IF r.error THEN NULL ELSE r.body
      code == extractProductCodeUS(html)
  IN  IF ~ Truthy(html) THEN [productCode |-> NULL, result |-> "ERROR"]
      ELSE IF Truthy(code) THEN [productCode |-> code, result |-> "FOUND"]
      ELSE [productCode |-> "", result |-> "NO_CODE"]

FetchInputsUS ==
  [stage : {"ready"}, resp : ResponsesUS, productCode_us : {UNDEF, NULL},
   result : {""}]

InitFetchUS ==
  InitHK /\ ov = OvIdle /\ wl = WlIdle /\ rs = RsIdle /\ mg = MgIdle
    /\ net = NetIdle /\ ft \in FetchInputsUS /\ kr = KrIdle /\ gate = GateIdle
    /\ cd = CdIdle

\* the pool callback on the record: res = await getProductCodeForUrl(url),
\* then working[i].productCode_us = res.productCode
fetchRecordUS ==
  /\ ft.stage = "ready"
  /\ LET res == getProductCodeForUrl(ft.resp)
     IN  ft' = [ft EXCEPT !.stage = "fetched",
                          !.productCode_us = res.productCode,
                          !.result = res.result]
  /\ UNCHANGED <<hkVars, ov, wl, rs, mg, net, kr, gate, cd>>

NextFetchUS == fetchRecordUS

SpecFetchUS == InitFetchUS /\ [][NextFetchUS]_vars

\* ===================================================================
\* The request counters of the HK engine and its cooldown
\* ===================================================================
\* One worker again, now with the counters of stats as they are counted:
\* totalAttempts (rounds of the fetchers started), totalRequests (pages
\* received) and cooldowns, the number of times maybeCooldownAndRefresh
\* slept and ran warmup.  A run is followed up to AttemptsCap attempts.
AttemptsCap == CooldownEvery + 1

CdStart ==
  [stage |-> "run", totalAttempts |-> 0, totalRequests |-> 0, cooldowns |-> 0,
   phase |-> "idle", loopAttempt |-> 0, attempt |-> 1]

InitCooldown ==
  InitHK /\ ov = OvIdle /\ wl = WlIdle /\ rs = RsIdle /\ mg = MgIdle
    /\ net = NetIdle /\ ft = FtIdle /\ kr = KrIdle /\ gate = GateIdle
    /\ cd = CdStart

\* if (totalRequests > 0 && totalRequests % cooldownEvery === 0)
\*   { await sleep(wait); await warmup(); }
maybeCooldownAndRefresh(c) ==
  IF refreshDue(c) THEN [c EXCEPT !.cooldowns = @ + 1] ELSE c

\* a worker enters getProductCodeForNsuid: round 0, stats.totalAttempts++,
\* then fetchText
cdCallFetch ==
  /\ cd.stage = "run"
  /\ cd.phase = "idle"
  /\ cd.totalAttempts < AttemptsCap
  /\ cd' = [cd EXCEPT !.totalAttempts = @ + 1, !.phase = "sent",
                      !.loopAttempt = 0, !.attempt = 1]
  /\ UNCHANGED <<hkVars, ov, wl, rs, mg, net, ft, kr, gate>>

\* 403, 503 or a denial page, attempts left: maybeCooldownAndRefresh, then
\* fetchText again
cdDenied ==
  /\ cd.phase = "sent"
  /\ cd.attempt < FetchMaxAttempts
  /\ cd' = [maybeCooldownAndRefresh(cd) EXCEPT !.attempt = @ + 1]
  /\ UNCHANGED <<hkVars, ov, wl, rs, mg, net, ft, kr, gate>>

\* fetchText resolves with a page: stats.totalRequests++, the fetcher returns
cdAnswered ==
  /\ cd.phase = "sent"
  /\ cd' = [cd EXCEPT !.phase = "idle", !.totalRequests = @ + 1]
  /\ UNCHANGED <<hkVars, ov, wl, rs, mg, net, ft, kr, gate>>

\* fetchText rejects: 404 ends the fetcher; after the last round
\* maybeCooldownAndRefresh is called and the fetcher returns ERROR; any other
\* round is followed by the next one (stats.totalAttempts++, fetchText)
cdRejected(notFound) ==
  /\ cd.phase = "sent"
  /\ (~ notFound /\ cd.loopAttempt < Retries) => cd.totalAttempts < AttemptsCap
  /\ cd' =
       IF notFound THEN [cd EXCEPT !.phase = "idle"]
       ELSE IF cd.loopAttempt = Retries
       THEN [maybeCooldownAndRefresh(cd) EXCEPT !.phase = "idle"]
       ELSE [cd EXCEPT !.totalAttempts = @ + 1, !.loopAttempt = @ + 1,
                       !.attempt = 1]
  /\ UNCHANGED <<hkVars, ov, wl, rs, mg, net, ft, kr, gate>>

NextCooldown ==
  \/ cdCallFetch
  \/ cdDenied
  \/ cdAnswered
  \/ \E notFound \in BOOLEAN : cdRejected(notFound)

SpecCooldown == InitCooldown /\ [][NextCooldown]_vars

\* ===================================================================
\* The resolver over records that differ in what the exact keys need
\* ===================================================================
\* region records with every part of the exact keys, with another platform,
\* without id, without platform, without productCode (same slug as the
\* canonical record), with the canonical title on another platform and on
\* the same platform
KeyedRegionItems(region) ==
  {Item(region, RegionId(region, IdA), CodeA, SlugMario, <<"Mario">>, Switch, TRUE),
   Item(region, RegionId(region, IdA), CodeA, SlugMario, <<"Mario">>, Switch2, TRUE),
   Item(region, <<>>, CodeA, SlugMario, <<"Mario">>, Switch, TRUE),
   Item(region, RegionId(region, IdA), CodeA, SlugMario, <<"Mario">>, NULL, TRUE),
   Item(region, RegionId(region, IdA), <<>>, SlugZelda, <<"Mario">>, Switch2, TRUE),
   Item(region, RegionId(region, IdA), CodeRevB, SlugMario, <<"Zelda">>, Switch2, TRUE),
   Item(region, RegionId(region, IdB), <<>>, SlugMario, <<"ZELDA", "!">>, SwitchLower, TRUE)}

KeyedArrays(region) ==
  UNION {[1..n -> KeyedRegionItems(region)] : n \in 0..MaxCandidates}

KeyedInputs ==
  UNION {[stage : {"loaded"}, region : {region}, arr : KeyedArrays(region),
          us : ResolverUSItems, idx : {EmptyIndex}, res : {NoMatch}] :
           region \in {"jp", "eu"}}

InitKeyed ==
  InitHK /\ ov = OvIdle /\ wl = WlIdle /\ rs \in KeyedInputs /\ mg = MgIdle
    /\ net = NetIdle /\ LaterIdle

SpecKeyed == InitKeyed /\ [][NextResolver]_vars

\* ===================================================================
\* The wait after a rate-limited response
\* ===================================================================
\* the Retry-After header of the response: absent, a number of seconds, an
\* HTTP date (ms is its distance from now), or text that is neither
RetryAfterHeaders ==
  {[kind |-> "absent", seconds |-> 0, ms |-> 0],
   [kind |-> "seconds", seconds |-> 0, ms |-> 0],
   [kind |-> "seconds", seconds |-> 1, ms |-> 1000],
   [kind |-> "seconds", seconds |-> 30, ms |-> 30000],
   [kind |-> "date", seconds |-> 0, ms |-> 5000],
   [kind |-> "text", seconds |-> 0, ms |-> 0]}

\* getPrices.js parseRetryAfter: milliseconds, or NoWait for null
NoWait == -1
parseRetryAfter(h) ==
  IF h.kind = "seconds" THEN h.seconds * 1000
  ELSE IF h.kind = "date" THEN (IF h.ms > 0 THEN h.ms ELSE 0)
  ELSE NoWait

\* getPrices.js fetchPricesPageWithRetry on 429 or 403: the sleep before the
\* next attempt
waitPrices(h, attempt, jitter) ==
  LET hinted == parseRetryAfter(h)
      waitMs == IF hinted = NoWait THEN BackoffBaseMs * (2 ^ attempt) ELSE hinted
  IN  waitMs + jitter

\* fetch_hk.js fetchBatch on 429: Number(res.headers['retry-after']) is NaN
\* unless the header is a number
delayBatch(h, attempt, jitter) ==
  LET delay == BaseDelayMs * (2 ^ attempt) + jitter
  IN  IF h.kind = "seconds" /\ h.seconds > 0 /\ h.seconds * 1000 > delay
        THEN h.seconds * 1000 ELSE delay

\* rand(200, 600) of the prices enricher, Math.random() * JITTER_MS of the
\* batch fetcher: their two ends
WaitJitterMs == [prices |-> {200, 600}, batch |-> {0, 249}]
WaitAttempts == 0..4

WaitInputs ==
  {[stage |-> "limited", engine |-> e, header |-> h, attempt |-> a,
    jitter |-> j, wait |-> 0] :
     e \in {"prices", "batch"}, h \in RetryAfterHeaders, a \in WaitAttempts,
     j \in WaitJitterMs.prices \cup WaitJitterMs.batch}

InitWait ==
  InitHK /\ ov = OvIdle /\ wl = WlIdle /\ rs = RsIdle /\ mg = MgIdle
    /\ net = NetIdle /\ kr = KrIdle /\ gate = GateIdle /\ cd = CdIdle
    /\ ft \in {w \in WaitInputs : w.jitter \in WaitJitterMs[w.engine]}

\* the prices enricher got a 429 or 403 and computes its sleep
limitedPrices ==
  /\ ft.stage = "limited"
  /\ ft.engine = "prices"
  /\ ft' = [ft EXCEPT !.stage = "waiting",
                      !.wait = waitPrices(ft.header, ft.attempt, ft.jitter)]
  /\ UNCHANGED <<hkVars, ov, wl, rs, mg, net, kr, gate, cd>>

\* the batch fetcher got a 429 and computes its sleep
limitedBatch ==
  /\ ft.stage = "limited"
  /\ ft.engine = "batch"
  /\ ft' = [ft EXCEPT !.stage = "waiting",
                      !.wait = delayBatch(ft.header, ft.attempt, ft.jitter)]
  /\ UNCHANGED <<hkVars, ov, wl, rs, mg, net, kr, gate, cd>>

NextWait == limitedPrices \/ limitedBatch

SpecWait == InitWait /\ [][NextWait]_vars

\* ===================================================================
\* The limiter under several callers
\* ===================================================================
\* tokens are counted in tenths, as Burst, Rate and TokenCost are
LimiterStart ==
  [stage |-> "limiter", tokens |-> Burst,
   phase |-> [w \in 1..TakeCallers |-> "idle"]]

InitLimiter ==
  InitHK /\ ov = OvIdle /\ wl = WlIdle /\ rs = RsIdle /\ mg = MgIdle
    /\ net = NetIdle /\ ft = FtIdle /\ kr = KrIdle /\ gate = GateIdle
    /\ cd = LimiterStart

\* the interval callback that adds the rate without the cap
limiterRefill_Uncapped(tokens) == tokens + Rate

\* Limiter constructor: the interval callback
limiterRefill(tokens) == Min(Burst, tokens + Rate)

\* Limiter.take from its while test to its next await or its return: the
\* test and the decrement run in one turn of the event loop
take(l, w) ==
  IF l.tokens < TokenCost
    THEN [l EXCEPT !.phase[w] = "sleeping"]
    ELSE [l EXCEPT !.tokens = @ - TokenCost, !.phase[w] = "taken"]

tick ==
  /\ cd.stage = "limiter"
  /\ cd' = [cd EXCEPT !.tokens = limiterRefill(@)]
  /\ UNCHANGED <<hkVars, ov, wl, rs, mg, net, ft, kr, gate>>

\* fetchText: await limiter.take()
takeCalled(w) ==
  /\ cd.stage = "limiter"
  /\ cd.phase[w] = "idle"
  /\ cd' = take(cd, w)
  /\ UNCHANGED <<hkVars, ov, wl, rs, mg, net, ft, kr, gate>>

\* the sleep of the while loop is over
takeWakes(w) ==
  /\ cd.stage = "limiter"
  /\ cd.phase[w] = "sleeping"
  /\ cd' = take(cd, w)
  /\ UNCHANGED <<hkVars, ov, wl, rs, mg, net, ft, kr, gate>>

\* the request made with the token is over; the worker may call again
requestOver(w) ==
  /\ cd.stage = "limiter"
  /\ cd.phase[w] = "taken"
  /\ cd' = [cd EXCEPT !.phase[w] = "idle"]
  /\ UNCHANGED <<hkVars, ov, wl, rs, mg, net, ft, kr, gate>>

NextLimiter ==
  \/ tick
  \/ \E w \in 1..TakeCallers : takeCalled(w)
  \/ \E w \in 1..TakeCallers : takeWakes(w)
  \/ \E w \in 1..TakeCallers : requestOver(w)

SpecLimiter == InitLimiter /\ [][NextLimiter]_vars

\* ===================================================================
\* The worker pools
\* ===================================================================
\* "map" is mapWithConcurrency of the HK engine, "pool" the pool of the JP
\* engine, "run" runWithPool of the prices enricher. A slot of results is
\* "none" until the invocation of its item has settled.
PoolKinds == {"map", "pool", "run"}
PoolLimits == 1..Concurrency

newPool(kind, n, limit) ==
  [stage |-> "pool", kind |-> kind, n |-> n, limit |-> limit, idx |-> 0,
   inflight |-> {}, results |-> [i \in 1..n |-> "none"],
   resolveCalls |-> 0, promise |-> "pending"]

\* a kick that starts every item that is left
kick_NoLimit(p) ==
  IF p.idx >= p.n /\ p.inflight = {}
    THEN [p EXCEPT !.resolveCalls = @ + 1,
                   !.promise = IF @ = "pending" THEN "resolved" ELSE @]
    ELSE [p EXCEPT !.idx = p.n, !.inflight = @ \cup ((p.idx + 1)..p.n)]

\* kick / next: resolve when nothing is left and nothing runs, otherwise
\* start items while inflight < limit
kick(p) ==
  IF p.idx >= p.n /\ p.inflight = {}
    THEN [p EXCEPT !.resolveCalls = @ + 1,
                   !.promise = IF @ = "pending" THEN "resolved" ELSE @]
    ELSE LET last == Min(p.n, p.idx + (p.limit - Cardinality(p.inflight)))
         IN  [p EXCEPT !.idx = last, !.inflight = @ \cup ((p.idx + 1)..last)]

\* a pool that keeps nothing of an invocation that threw
settled_Lost(kind, throws) == IF throws THEN "none" ELSE "value"

\* what the pool keeps of an invocation that has settled
settled(kind, throws) ==
  IF ~ throws THEN "value"
  ELSE IF kind = "map" THEN "error"
  ELSE IF kind = "pool" THEN "undefined"
  ELSE "rejected"

InitPool ==
  InitHK /\ ov = OvIdle /\ wl = WlIdle /\ rs = RsIdle /\ mg = MgIdle
    /\ net = NetIdle /\ ft = FtIdle /\ gate = GateIdle /\ cd = CdIdle
    /\ kr \in {kick(newPool(k, n, l)) :
                 k \in PoolKinds, n \in 0..PoolItems, l \in PoolLimits}

\* the invocation of position pos returns
invocationReturns(pos) ==
  /\ kr.stage = "pool"
  /\ pos \in kr.inflight
  /\ kr' = kick([kr EXCEPT !.results[pos] = settled(kr.kind, FALSE),
                           !.inflight = @ \ {pos}])
  /\ UNCHANGED <<hkVars, ov, wl, rs, mg, net, ft, gate, cd>>

\* the invocation of position pos throws; runWithPool rejects its promise
invocationThrows(pos) ==
  /\ kr.stage = "pool"
  /\ pos \in kr.inflight
  /\ kr' = kick([kr EXCEPT !.results[pos] = settled(kr.kind, TRUE),
                           !.inflight = @ \ {pos},
                           !.promise = IF kr.kind = "run" /\ @ = "pending"
                                         THEN "rejected" ELSE @])
  /\ UNCHANGED <<hkVars, ov, wl, rs, mg, net, ft, gate, cd>>

NextPool ==
  \/ \E pos \in 1..PoolItems : invocationReturns(pos)
  \/ \E pos \in 1..PoolItems : invocationThrows(pos)

SpecPool == InitPool /\ [][NextPool]_vars

\* ===================================================================
\* The source view as it is on disk
\* ===================================================================
\* an element of the array of the source file: null, or an object with or
\* without an identity
NullEntry == [kind |-> "null", id |-> "", row |-> EmptyRow]
RawEntries ==
  {NullEntry} \cup
  {[kind |-> "row", id |-> i, row |-> r] : i \in Ids \cup {""}, r \in BaseRows}
RawViews == UNION {[1..n -> RawEntries] : n \in 0..MaxRawEntries}

InitRaw ==
  InitHK /\ ov = OvIdle /\ wl = WlIdle /\ rs = RsIdle /\ mg = MgIdle
    /\ net = NetIdle /\ kr = KrIdle /\ gate = GateIdle /\ cd = CdIdle
    /\ ft \in {[stage |-> "raw", view |-> v] : v \in RawViews}

\* main: g.nsuid_hk of a null element throws a TypeError out of the loop
baseLoopThrows(view) == \E i \in 1..Len(view) : view[i].kind = "null"

\* main: the loop that builds inBase; an element without id is skipped and a
\* later element replaces an earlier one of the same identity
indexBase(view) ==
  LET at(id) == {i \in 1..Len(view) : view[i].id = id}
      last(id) == CHOOSE i \in at(id) : \A j \in at(id) : j <= i
  IN  [id \in {view[i].id : i \in 1..Len(view)} \ {""} |-> view[last(id)].row]

\* a run over the file: load, index, union, merge, worklists
mainRaw ==
  /\ ft.stage = "raw"
  /\ run = 0
  /\ ~ baseLoopThrows(ft.view)
  /\ main(indexBase(ft.view))

\* a run that ends in the loop over the source view: the async main
\* function rejects, nothing has been written
mainRejects ==
  /\ ft.stage = "raw"
  /\ run = 0
  /\ pc = "idle"
  /\ baseLoopThrows(ft.view)
  /\ run' = run + 1
  /\ fault' = "typeerror"
  /\ UNCHANGED <<master, snapshot, pc, inBase, existingMaster, working,
                 toProcessCode, toProcessPlatformOnly, idx, inflight,
                 processed, platDone, lastResult, sameBase>>
  /\ UNCHANGED nonHK

NextRaw ==
  \/ mainRaw
  \/ mainRejects
  \/ \E pos \in 1..Concurrency : \E resps \in AttemptRuns :
       Pass1Complete(pos, resps)
  \/ Pass1Resolve
  \/ \E pos \in 1..Concurrency : \E r \in AttemptOutcomes :
       Pass2Complete(pos, r)
  \/ FinalSave

SpecRaw == InitRaw /\ [][NextRaw]_vars

\* ===================================================================
\* Properties
\* ===================================================================
\* the sentinel state of a productCode value
Present(v) == IsNonBlankString(v)
Unknown(v) == v \in {UNDEF, NULL}
Empty(v) == v = ""

InRun == pc \in {"pass1", "pass2", "done"}
Absent == {"NO_CODE", "NOT_FOUND"}
Worklisted == Range(toProcessCode) \cup Range(toProcessPlatformOnly)

\* the step in which the pass-1 fetch of identity id completes
FetchStep(id) ==
  /\ pc = "pass1"
  /\ processed' = processed + 1
  /\ \E pos \in inflight \ inflight' : toProcessCode[pos] = id

\* the step in which a run starts: load, merge, worklists
MergeStep == pc \in {"idle", "done"} /\ pc' = "pass1"

\* C1 -- Append-only master: no step of any run removes an identity from
\* the persisted master, whatever the source views of the runs are.
C1_AppendOnlyMaster == [][DOMAIN master \subseteq DOMAIN master']_vars

\* C1 witness: a finished second run whose source view dropped an identity
\* of the prior master, which the new master still holds.
C1_Witness ==
  /\ pc = "done" /\ run = 2
  /\ \E id \in DOMAIN existingMaster : id \notin DOMAIN inBase /\ id \in DOMAIN master

\* C2 -- Sentinel monotonicity (HK): in the persisted master a productCode_hk
\* never moves from present to unknown or to empty, nor from empty to unknown.
C2_SentinelMonotone ==
  [][\A id \in DOMAIN master :
       /\ id \in DOMAIN master'
       /\ Present(master[id].productCode_hk) =>
            /\ ~ Unknown(master'[id].productCode_hk)
            /\ ~ Empty(master'[id].productCode_hk)
       /\ Empty(master[id].productCode_hk) =>
            ~ Unknown(master'[id].productCode_hk)]_vars

\* C2 witness: a later run has finished over a prior record whose code was
\* present (or the empty sentinel) while the fresh row carried no code.
C2_Witness ==
  /\ pc = "done" /\ run >= 3
  /\ \E id \in DOMAIN existingMaster \cap DOMAIN inBase :
       /\ ~ Present(inBase[id].productCode_hk)
       /\ Present(existingMaster[id].productCode_hk)
       /\ Present(master[id].productCode_hk)
       /\ lastResult[id] = "FOUND"

ErrorIsContained ==
  /\ \A id \in Ids :
       (FetchStep(id) /\ lastResult'[id] = "ERROR") =>
         working'[id].productCode_hk = NULL
  /\ pc' = "done" =>
       /\ processed' = Len(toProcessCode')
       /\ master' = working'
       /\ DOMAIN snapshot' = {id \in DOMAIN working' : working'[id].active_in_base}

\* C5 (as claimed) -- a fetch ending in ERROR does not abort the run (the
\* other worklist records are processed, master and snapshot are written),
\* leaves the record's productCode null, and the record is in a worklist
\* of the next run in which it is active.
C5_ErrorRetried_AsClaimed ==
  [][/\ ErrorIsContained
     /\ \A id \in DOMAIN master :
          (MergeStep /\ lastResult[id] = "ERROR"
             /\ Unknown(master[id].productCode_hk) /\ id \in DOMAIN inBase') =>
            id \in Range(toProcessCode') \cup Range(toProcessPlatformOnly')]_vars

\* C5 (amended) -- ... and the record is in the productCode worklist of the
\* next run in which it is active, unless the source view of that run
\* supplies a non-blank productCode for it.
C5_ErrorRetried ==
  [][/\ ErrorIsContained
     /\ \A id \in DOMAIN master :
          (MergeStep /\ lastResult[id] = "ERROR"
             /\ Unknown(master[id].productCode_hk) /\ id \in DOMAIN inBase'
             /\ ~ IsNonBlankString(inBase'[id].productCode_hk)) =>
            id \in Range(toProcessCode')]_vars

\* C5 witness: the second run starts with a record whose fetch ended in
\* ERROR in the first run, while the other record of that run was fetched
\* and both were written to master and snapshot.
C5_Witness ==
  /\ pc = "pass1" /\ run = 2 /\ processed = 0
  /\ \E id \in DOMAIN inBase, other \in DOMAIN master :
       /\ id # other
       /\ lastResult[id] = "ERROR"
       /\ master[id].productCode_hk = NULL
       /\ id \in DOMAIN snapshot
       /\ id \in Range(toProcessCode)
       /\ lastResult[other] = "FOUND"
       /\ master[other].productCode_hk = PageCode

\* C6 -- a record that was active in the previous run and is absent from
\* this run's source view: active_in_base becomes false, last_seen_at and
\* every known field value are kept, and at the end of the run the record
\* is in the master and not in the snapshot.
C6_Disappeared ==
  InRun =>
    \A id \in DOMAIN existingMaster :
      (existingMaster[id].active_in_base /\ id \notin DOMAIN inBase) =>
        /\ id \in DOMAIN working
        /\ working[id].active_in_base = FALSE
        /\ working[id].last_seen_at = existingMaster[id].last_seen_at
        /\ working[id].first_seen_at = existingMaster[id].first_seen_at
        /\ working[id].last_checked_at = existingMaster[id].last_checked_at
        /\ working[id].productCode_hk = existingMaster[id].productCode_hk
        /\ TrimStr(existingMaster[id].platform) # "" =>
             working[id].platform = existingMaster[id].platform
        /\ pc = "done" =>
             /\ id \in DOMAIN master
             /\ master[id] = working[id]
             /\ id \notin DOMAIN snapshot

\* C6 witness: a finished run in which an enriched record that was active
\* before is missing from the source view.
C6_Witness ==
  /\ pc = "done"
  /\ \E id \in DOMAIN existingMaster :
       /\ existingMaster[id].active_in_base
       /\ id \notin DOMAIN inBase
       /\ existingMaster[id].productCode_hk = PageCode
       /\ existingMaster[id].platform = Switch
       /\ DOMAIN inBase # {}

\* C7 -- during and after every run, active_in_base of every record is true
\* exactly when the identity is in this run's source view, whatever the flag
\* was before.
C7_ActiveIffInSource ==
  InRun =>
    /\ \A id \in DOMAIN working :
         working[id].active_in_base = (id \in DOMAIN inBase)
    /\ pc = "done" =>
         \A id \in DOMAIN master :
           master[id].active_in_base = (id \in DOMAIN inBase)

\* C7 witness: a finished run in which an identity that the prior master
\* held as inactive is in the source view again, and active.
C7_Witness ==
  /\ pc = "done"
  /\ \E id \in DOMAIN existingMaster :
       /\ ~ existingMaster[id].active_in_base
       /\ id \in DOMAIN inBase
       /\ master[id].active_in_base

\* C8 -- first_seen_at is the run time of the run in which the identity
\* first appears and is the same ever after; last_seen_at is the run time
\* in a run where the record is active and the prior value otherwise.
C8_SeenBookkeeping ==
  InRun =>
    \A id \in DOMAIN working :
      /\ id \in DOMAIN existingMaster =>
           working[id].first_seen_at = existingMaster[id].first_seen_at
      /\ id \notin DOMAIN existingMaster =>
           working[id].first_seen_at = RunNow(run)
      /\ working[id].active_in_base => working[id].last_seen_at = RunNow(run)
      /\ ~ working[id].active_in_base =>
           working[id].last_seen_at = existingMaster[id].last_seen_at
      /\ id \in DOMAIN master =>
           /\ master[id].first_seen_at = working[id].first_seen_at
           /\ pc = "done" => master[id].last_seen_at = working[id].last_seen_at

\* C8 witness: a finished run over a record first seen two runs before
\* that is inactive for the second run in a row.
C8_Witness ==
  /\ pc = "done" /\ run >= 3
  /\ \E id \in DOMAIN master :
       /\ ~ master[id].active_in_base
       /\ ~ existingMaster[id].active_in_base
       /\ master[id].first_seen_at = RunNow(run - 2)
       /\ master[id].last_seen_at = RunNow(run - 2)

\* C9 -- at the end of a run the persisted snapshot holds exactly the
\* records of the persisted master whose active flag is true, unchanged.
C9_SnapshotIsActiveMaster ==
  pc = "done" =>
    /\ DOMAIN snapshot = {id \in DOMAIN master : master[id].active_in_base}
    /\ \A id \in DOMAIN snapshot : snapshot[id] = master[id]

\* C9 witness: a finished run whose master has an active and an inactive
\* record, both enriched.
C9_Witness ==
  /\ pc = "done"
  /\ \E a \in DOMAIN master, i \in DOMAIN master :
       /\ master[a].active_in_base /\ ~ master[i].active_in_base
       /\ master[a].last_checked_at # 0 /\ master[i].last_checked_at # 0
       /\ a \in DOMAIN snapshot

\* the records the run fetched again
Refetched == Worklisted

\* C10 (as claimed) -- two runs in a row over an unchanged source view:
\* master and snapshot are identical, no field differs, except
\* last_checked_at on the records the second run fetched again.
C10_Idempotent_AsClaimed ==
  (pc = "done" /\ sameBase) =>
    /\ DOMAIN master = DOMAIN existingMaster
    /\ DOMAIN snapshot = {id \in DOMAIN existingMaster : existingMaster[id].active_in_base}
    /\ \A id \in DOMAIN master :
         /\ master[id].productCode_hk = existingMaster[id].productCode_hk
         /\ master[id].platform = existingMaster[id].platform
         /\ master[id].active_in_base = existingMaster[id].active_in_base
         /\ master[id].first_seen_at = existingMaster[id].first_seen_at
         /\ master[id].last_seen_at = existingMaster[id].last_seen_at
         /\ id \notin Refetched =>
              master[id].last_checked_at = existingMaster[id].last_checked_at

\* C10 (amended) -- two runs in a row over an unchanged source view: the
\* same identities, flags and first_seen_at; last_seen_at differs on the
\* active records (it is the new run time) and on no other; a record that
\* was not fetched again keeps productCode, platform and last_checked_at;
\* a record that was fetched again keeps a productCode and a platform it
\* already had.
C10_Idempotent ==
  (pc = "done" /\ sameBase) =>
    /\ DOMAIN master = DOMAIN existingMaster
    /\ DOMAIN snapshot = {id \in DOMAIN existingMaster : existingMaster[id].active_in_base}
    /\ \A id \in DOMAIN master :
         /\ master[id].active_in_base = existingMaster[id].active_in_base
         /\ master[id].first_seen_at = existingMaster[id].first_seen_at
         /\ master[id].last_seen_at =
              IF master[id].active_in_base THEN RunNow(run)
              ELSE existingMaster[id].last_seen_at
         /\ id \notin Refetched =>
              /\ master[id].productCode_hk = existingMaster[id].productCode_hk
              /\ master[id].platform = existingMaster[id].platform
              /\ master[id].last_checked_at = existingMaster[id].last_checked_at
         /\ id \in Refetched =>
              /\ Present(existingMaster[id].productCode_hk) =>
                   master[id].productCode_hk = existingMaster[id].productCode_hk
              /\ Truthy(existingMaster[id].platform) =>
                   master[id].platform = existingMaster[id].platform

\* C10 witness: the second of two runs over the same non-empty source view
\* has finished, with a record it fetched again and one it did not.
C10_Witness ==
  /\ pc = "done" /\ sameBase
  /\ \E a \in DOMAIN inBase, b \in DOMAIN inBase :
       /\ a \in Refetched
       /\ b \notin Refetched
       /\ master[b].last_checked_at # 0

\* a field value that is blank or missing / that is known
BlankValue(f, v) ==
  IF f = "genres" THEN ~(v.isArray /\ Len(v.items) > 0) ELSE TrimStr(v) = ""
KnownValue(f, v) == ~BlankValue(f, v)

\* C11 -- Non-destructive overlay: for every overlaid field, when the fresh
\* source value is blank or missing and the prior master value is non-blank,
\* the merged value is the prior master value.
C11_NonDestructiveOverlay ==
  (ov.stage = "merged" /\ BlankValue(ov.field, ov.base)
     /\ KnownValue(ov.field, ov.prior))
    => ov.merged = ov.prior

\* C11 witness: a publisher known to the master, blank in the source row,
\* has gone through the merge loop and is still the known one
C11_Witness ==
  /\ ov.stage = "merged"
  /\ ov.field = "publisher"
  /\ ov.base = " "
  /\ ov.prior = "old"
  /\ ov.merged = "old"

\* C12 -- Unreadable input aborts before any write: in a run whose source
\* file or prior master file could not be read or parsed, no step changes
\* the master file or the snapshot file.
C12_UnreadableAborts ==
  [][fault' # "none" => (master' = master /\ snapshot' = snapshot)]_vars

\* the productCode of a merged record of either engine
CodeOf(region, g) == IF region = "kr" THEN g.productCode_kr ELSE g.productCode_hk
BlankPlatform(g) == TrimStr(g.platform) = ""

\* the worklist the specification describes; supportLanguage is a field of
\* the KR records only
DueForFetch(region, g) ==
  /\ g.active_in_base
  /\ ~ Empty(CodeOf(region, g))
  /\ \/ Unknown(CodeOf(region, g))
     \/ BlankPlatform(g)
     \/ (region = "kr" /\ Unknown(g.supportLanguage))

\* C13 -- Worklist: a merged record is selected for fetching exactly when it
\* is active, its productCode is not the "" sentinel, and its productCode is
\* unknown or its platform is blank or its supportLanguage is unknown; an
\* inactive record and a record with productCode "" are never selected.
C13_WorklistExact ==
  wl.stage = "filtered" =>
    /\ wl.listed <=> DueForFetch(wl.region, wl.g)
    /\ wl.listed => (wl.g.active_in_base /\ CodeOf(wl.region, wl.g) # "")

\* C13 witness: an active KR record with a code and a platform whose
\* supportLanguage was never determined is selected
C13_Witness ==
  /\ wl.stage = "filtered"
  /\ wl.region = "kr"
  /\ wl.g.active_in_base
  /\ wl.g.productCode_kr = PageCode
  /\ wl.g.platform = Switch
  /\ wl.g.supportLanguage = UNDEF
  /\ wl.listed

\* the positions of arr whose record produces the exact key of rule k that
\* the canonical record looks up, in insertion order
ExactKey(rule, item, region) ==
  LET f4 == first4DigitsFromNsuid(item.nsuid, region)
      pcU == uc(item.productCode)
      plat == getPlatform(item)
      part == IF rule = "k1" THEN pcU
              ELSE IF rule = "k2" THEN pcFirst8(pcU) ELSE pcPos4to8(pcU)
  IN  IF f4 # NULL /\ pcU # <<>> /\ Truthy(plat) /\ part # <<>>
      THEN <<f4, part, plat>> ELSE <<>>

Producers(rule, arr, region, key) ==
  {p \in 1..Len(arr) : ExactKey(rule, arr[p], region) = key}

ExactRules == {"k1", "k2", "k3"}
MapOf(index, rule) ==
  IF rule = "k1" THEN index.k1 ELSE IF rule = "k2" THEN index.k2 ELSE index.k3

Indexed == rs.stage \in {"indexed", "resolved"}

\* the original statement of C19: the record kept for an exact key is the
\* last one written
C19_ExactKeyKeepsLast_AsClaimed ==
  Indexed =>
    \A rule \in ExactRules : \A p \in 1..Len(rs.arr) :
      LET key == ExactKey(rule, rs.arr[p], rs.region)
          from == Producers(rule, rs.arr, rs.region, key)
      IN  key # <<>> =>
            /\ key \in DOMAIN MapOf(rs.idx, rule)
            /\ MapOf(rs.idx, rule)[key] \in from
            /\ \A q \in from : q <= MapOf(rs.idx, rule)[key]

\* C19 -- Exact keys: when several region records produce the same K1, K2 or
\* K3 key, the index keeps exactly one of them for that key, and the kept
\* record is the first one inserted; it depends on insertion order only.
C19_ExactKeyKeepsFirst ==
  Indexed =>
    \A rule \in ExactRules : \A p \in 1..Len(rs.arr) :
      LET key == ExactKey(rule, rs.arr[p], rs.region)
          from == Producers(rule, rs.arr, rs.region, key)
      IN  key # <<>> =>
            /\ key \in DOMAIN MapOf(rs.idx, rule)
            /\ MapOf(rs.idx, rule)[key] \in from
            /\ \A q \in from : MapOf(rs.idx, rule)[key] <= q

\* C19 witness: two different records produce the same K2 key, and the
\* index holds the one inserted first
C19_Witness ==
  /\ Indexed
  /\ Len(rs.arr) >= 2
  /\ rs.arr[1] # rs.arr[2]
  /\ ExactKey("k2", rs.arr[1], rs.region) # <<>>
  /\ ExactKey("k2", rs.arr[1], rs.region) = ExactKey("k2", rs.arr[2], rs.region)
  /\ rs.idx.k2[ExactKey("k2", rs.arr[1], rs.region)] = 1

Resolved == rs.stage = "resolved"

\* the least element of a non-empty set of positions
Least(S) == CHOOSE x \in S : \A y \in S : x <= y

\* the positions a rule may return for the canonical record: the value the
\* index holds for the record's key of that rule, or the whole K4 bucket
TitleKey(item) ==
  IF normalizeTitle(item.title) # <<>> /\ Truthy(getPlatform(item))
  THEN <<normalizeTitle(item.title), getPlatform(item)>> ELSE <<>>

Hits(rule) ==
  IF rule \in ExactRules
  THEN LET key == ExactKey(rule, rs.us, "us")
       IN  IF key # <<>> /\ key \in DOMAIN MapOf(rs.idx, rule)
           THEN {MapOf(rs.idx, rule)[key]} ELSE {}
  ELSE IF rule = "k4"
  THEN LET key == urlKeyLooseFromItem(rs.us)
       IN  IF key # <<>> /\ key \in DOMAIN rs.idx.k4
           THEN Range(rs.idx.k4[key]) ELSE {}
  ELSE LET key == TitleKey(rs.us)
       IN  IF key # <<>> /\ key \in DOMAIN rs.idx.kt
           THEN {rs.idx.kt[key]} ELSE {}

RuleOrder == <<"k1", "k2", "k3", "k4", "title">>
RulesWithHit == {k \in 1..Len(RuleOrder) : Hits(RuleOrder[k]) # {}}

\* C15 -- Resolution order: for a canonical record off the strict list the
\* resolver returns the hit of the first of K1, K2, K3, K4, KT that has a hit
\* in the region index, labelled with that rule, and returns no match exactly
\* when none of the five has a hit.
C15_FirstHitWins ==
  (Resolved /\ ~ strictHit(rs.us)) =>
    IF RulesWithHit = {} THEN rs.res = NoMatch
    ELSE LET first == Least(RulesWithHit)
         IN  /\ rs.res.rule = RuleOrder[first]
             /\ rs.res.pos \in Hits(RuleOrder[first])

\* C15 witness: K1 and K2 miss, K3, K4 and the title all hit, and the
\* resolver returned the K3 record
C15_Witness ==
  /\ Resolved
  /\ ~ strictHit(rs.us)
  /\ Hits("k1") = {} /\ Hits("k2") = {}
  /\ Hits("k3") # {} /\ Hits("k4") # {} /\ Hits("title") # {}
  /\ rs.res.rule = "k3"

\* the region records whose loose slug is the canonical record's, in
\* insertion order
Bucket ==
  {p \in 1..Len(rs.arr) :
     /\ urlKeyLooseFromItem(rs.us) # <<>>
     /\ urlKeyLooseFromItem(rs.arr[p]) = urlKeyLooseFromItem(rs.us)}

\* C16 -- Strict slugs: for a canonical record whose normalized slug is on
\* the strict list the resolver returns a record of the K4 bucket of the
\* record's loose slug or no match, never a K1, K2, K3 or title match.
C16_StrictIsSlugOnly ==
  (Resolved /\ strictHit(rs.us)) =>
    \/ rs.res = NoMatch /\ Bucket = {}
    \/ rs.res.rule = "strict-urlKey" /\ rs.res.pos \in Bucket

\* C16 witness: a strict record whose K1 key and title both hit in the index
\* got no match, its loose slug having no bucket
C16_Witness ==
  /\ Resolved
  /\ strictHit(rs.us)
  /\ Hits("k1") # {} /\ Hits("title") # {}
  /\ Bucket = {}
  /\ rs.res = NoMatch

\* the prefix of the canonical record and the candidates that share it
PrefixUS == first4DigitsFromNsuid(rs.us.nsuid, "us")
WithPrefix == {p \in Bucket : PrefixUS # NULL /\ candF4(rs.arr[p]) = PrefixUS}

\* C17 -- K4 tie-break: a K4 match is the first indexed candidate of the
\* bucket whose first-4-digit prefix is the canonical record's, and the first
\* indexed candidate when no candidate has that prefix or the canonical
\* record has none; recomputing the match gives the same record.
C17_TieBreak ==
  (Resolved /\ rs.res.rule \in {"k4", "strict-urlKey"}) =>
    /\ rs.res.pos = IF WithPrefix # {} THEN Least(WithPrefix) ELSE Least(Bucket)
    /\ rs.res = tryMatch(buildRegionIndexes(rs.arr, rs.region), rs.arr, rs.us,
                         strictHit(rs.us))

\* C17 witness: three candidates share the loose slug, the first without the
\* canonical prefix, the second and third with it; the second is returned
C17_Witness ==
  /\ Resolved
  /\ rs.res.rule = "k4"
  /\ Bucket = {1, 2, 3}
  /\ WithPrefix = {2, 3}
  /\ rs.res.pos = 2

Written == mg.stage = "written"

\* C14 -- Pruning invariant: in every row of the written output, canonical
\* or appended, nsuid_<region> is present exactly when the region is in the
\* row's activeRegions.
C14_PruningInvariant ==
  Written =>
    \A k \in 1..Len(mg.merged) : \A rc \in AllRegionSet :
      (mg.merged[k].nsuidOf[rc] # <<>>) <=> (rc \in mg.merged[k].activeRegions)

\* C18 -- No double attachment: within one merge pass, no region record is
\* attached to two canonical rows of the output.
C18_NoSharedRegionRecord ==
  mg.stage \in {"indexed", "written"} =>
    \A r \in RegionSet : \A i, j \in 1..Len(mg.merged) :
      (i # j /\ mg.merged[i].matched[r] # 0)
        => mg.merged[i].matched[r] # mg.merged[j].matched[r]

\* C20 -- Every request is gated: a step that hands a request to https.get
\* (warm-up, first attempt, redirect follow-up or retry) takes one token
\* from the bucket.
C20_EveryRequestTakesToken ==
  [][(net.stage # "off" /\ net'.wire # net.wire)
       => net'.tokens = net.tokens - TokenCost]_vars

\* C21 -- No operation blocks indefinitely: a fetch that has been started
\* for a target ends with an outcome, whatever the server does with the
\* requests, including never answering one.
C21_FetchAlwaysEnds == (net.stage = "run" /\ net.phase = "take") ~> (net.phase = "idle")


\* every request the fetcher made for the record was answered with a
\* transient failure signal
Transient(r) == r.status \in {403, 429, 503} \/ r.body = "DENIED"
AllTransient(f) ==
  \A n \in 1..requestsMade(f.resps, 0, 1) : Transient(f.resps[n])

\* C22 -- If every attempt for a target ends in a transient failure signal
\* (403, 429, 503, or a soft-block body whatever its status), the outcome is
\* ERROR and the record's productCode stays unknown, never the empty sentinel.
C22_ExhaustedTransientIsError ==
  (ft.stage = "fetched" /\ AllTransient(ft))
    => (ft.result = "ERROR" /\ Unknown(ft.productCode_hk))


\* the worklist of the pass a state is in, and the records a step writes
PassList == IF pc = "pass1" THEN toProcessCode
            ELSE IF pc = "pass2" THEN toProcessPlatformOnly ELSE <<>>
Injective(list) ==
  \A p, q \in 1..Len(list) : list[p] = list[q] => p = q
WrittenIds == {id \in DOMAIN working : working'[id] # working[id]}
SamePass == pc' = pc /\ run' = run

\* C23 -- Every worklist record is handed to exactly one worker invocation
\* and each invocation writes only the slot of its own identity, under every
\* interleaving of the pool: a position is dispatched once (the positions
\* that enter the pool are the next ones not yet handed out), the worklist
\* holds no identity twice, a completing invocation is the only writer of
\* the step and writes no record but its own, and pass 1 is left only when
\* every position has completed.
C23_OneWorkerPerRecord ==
  [][/\ Injective(PassList)
     /\ \A p \in inflight' \ inflight :
          /\ p \in 1..idx'
          /\ SamePass => p > idx
     /\ (pc \in {"pass1", "pass2"} /\ WrittenIds # {})
          => \E p \in inflight \ inflight' :
               /\ inflight \ inflight' = {p}
               /\ WrittenIds = {PassList[p]}
     /\ pc = "pass1" => processed + Cardinality(inflight) = idx
     /\ (pc = "pass1" /\ pc' = "pass2") => processed = Len(toProcessCode)
    ]_vars

\* both records are in the pool of pass 1 and one of them completes while
\* the other is still being fetched
C23_Witness ==
  pc = "pass1" /\ idx = 2 /\ processed = 1 /\ Cardinality(inflight) = 1


\* a step that completes a fetch and is due to save: the N-th completion of
\* its pass or the last one
CheckpointStep ==
  \/ pc = "pass1" /\ processed' = processed + 1
       /\ saveDue(processed', Len(toProcessCode))
  \/ pc = "pass2" /\ platDone' = platDone + 1
       /\ saveDue(platDone', Len(toProcessPlatformOnly))
SnapshotOf(m) ==
  [id \in {i \in DOMAIN m : m[i].active_in_base} |-> m[id]]

\* C24 -- At every checkpoint of a fetch pass (every N-th completion and the
\* last one) both artifacts are persisted, so that the snapshot on disk
\* holds exactly the active records of the master on disk.
C24_CheckpointSavesBoth ==
  [][CheckpointStep => snapshot' = SnapshotOf(master')]_vars


\* the productCode of an identity in the master file
DiskCode(id) ==
  IF id \in DOMAIN master THEN master[id].productCode_hk ELSE UNDEF
\* the run that starts after a killed run, over the same source view
ResumeStep == pc = "idle" /\ run > 0 /\ pc' = "pass1" /\ inBase' = inBase
\* the source row itself settles the productCode of the merged record
SourceSupplies(id) ==
  \/ IsNonBlankString(inBase'[id].productCode_hk)
  \/ inBase'[id].productCode_hk = "" /\ DiskCode(id) = UNDEF
AllIdentities ==
  (pc # "done" /\ pc' = "done")
    => DOMAIN master' = DOMAIN existingMaster \cup DOMAIN inBase
Checkpointed(id) == Present(DiskCode(id)) \/ Empty(DiskCode(id))

KrMergeStep == kr.stage \in {"new", "saved"} /\ kr'.stage = "merged"

\* C26 -- KR engine: a record whose productCode_kr is "" in the prior master
\* still has productCode_kr "" after the merge step of every later run,
\* whatever the source row holds for the field, and is not in the worklist.
C26_EmptyStaysEmptyKR ==
  [][(KrMergeStep /\ kr.stage = "saved" /\ kr.row.productCode_kr = "")
       => (kr'.row.productCode_kr = "" /\ ~ kr'.listed)]_vars

\* C28 -- KR engine: no merge step and no fetch outcome regresses a
\* sentinel: a present productCode_kr stays present and a supportLanguage
\* "en" stays "en".
C28_NoRegressionKR ==
  [][/\ Present(kr.row.productCode_kr) => Present(kr'.row.productCode_kr)
     /\ kr.row.supportLanguage = "en" => kr'.row.supportLanguage = "en"
    ]_vars


\* a step in which a request goes out, and the requests being answered
RequestsOut(g) == {t \in Tasks : g.tasks[t].phase = "fetching"}
RequestStarts ==
  /\ gate.stage = "run"
  /\ \E t \in RequestsOut(gate') :
       t \notin RequestsOut(gate) \/ gate'.tasks[t].pages # gate.tasks[t].pages

\* C27 -- The prices enricher keeps a global minimum gap: a request never
\* starts less than MIN_REQUEST_GAP_MS after the request before it, whatever
\* country task issued either of them.
C27_GlobalMinimumGap ==
  [][(RequestStarts /\ gate.lastRequestAt # 0)
       => gate'.now - gate.lastRequestAt >= MinRequestGapMs]_vars


\* an unexpected or transient HTTP error status / a Confirmed Absent answer
ErrorStatus(r) == ~ r.error /\ (r.status \in {403, 429} \/ r.status >= 500)
ConfirmedAbsent(r) ==
  ~ r.error /\ (r.status = 404 \/ (r.status = 200 /\ r.body = "NOCODE"))

\* C29 -- US engine: a fetch that ends with an HTTP error status (403, 429,
\* 5xx) has outcome ERROR and leaves productCode_us unknown; "" is written
\* only for Confirmed Absent (404, or a well-formed page without the code).
C29_ErrorStatusIsErrorUS ==
  ft.stage = "fetched" =>
    /\ ErrorStatus(ft.resp)
         => (ft.result = "ERROR" /\ Unknown(ft.productCode_us))
    /\ Empty(ft.productCode_us) => ConfirmedAbsent(ft.resp)


\* C30 -- Whenever the total attempt count reaches a multiple of
\* cooldownEvery the engine cools down and warms up before the next request,
\* also when every request succeeded: once the attempt after the
\* cooldownEvery-th one has started, a cooldown has been done.
C30_CooldownByAttempts ==
  cd.stage = "run" =>
    (cd.totalAttempts > CooldownEvery => cd.cooldowns > 0)


\* the response carries a usable Retry-After hint; the wait comes from it
\* (the hint, plus at most the jitter of the engine)
Hinted(f) == f.header.kind \in {"seconds", "date"} /\ f.header.ms > 0
FromHint(f) ==
  \E j \in WaitJitterMs[f.engine] \cup {0} : f.wait = f.header.ms + j

\* C31 -- When a rate-limited response carries a Retry-After hint, the wait
\* before the next attempt comes from the hint and not from the backoff
\* formula base x 2^attempt, in both engines that read the header.
C31_HintOverridesBackoff ==
  (ft.stage = "waiting" /\ Hinted(ft)) => FromHint(ft)


\* a take() of worker w returns in this step
TakeReturns(w) == cd.phase[w] # "taken" /\ cd'.phase[w] = "taken"
TokensInRange == cd.tokens >= 0 /\ cd.tokens <= Burst

\* C33 -- Under any interleaving of workers calling take() with the refill,
\* the token count stays between 0 and the burst size, and every take() that
\* returns has consumed exactly one whole token that was there.
C33_TokensBounded ==
  /\ [](cd.stage = "limiter" => TokensInRange)
  /\ [][\A w \in 1..TakeCallers :
          TakeReturns(w) =>
            cd.tokens >= TokenCost /\ cd'.tokens = cd.tokens - TokenCost]_vars

\* one worker holds the last token while another sleeps for the next
C33_Witness ==
  /\ cd.stage = "limiter"
  /\ cd.tokens < TokenCost
  /\ \E v, w \in 1..TakeCallers :
       cd.phase[v] = "taken" /\ cd.phase[w] = "sleeping"


\* C32 -- Every checkpoint of a fetch pass is written after the update of
\* the completing record is fully applied: the record on disk carries the
\* field values and the last_checked_at stamp the record has in memory
\* when the step is over.
C32_CheckpointAfterUpdate ==
  [][CheckpointStep => \A id \in WrittenIds : master'[id] = working'[id]]_vars


\* C34 -- At every moment of a pass the number of in-flight invocations is
\* at most the concurrency limit of the pool, for every worklist length and
\* every order of completions, in the three pools.
C34_InflightBounded ==
  kr.stage = "pool" => Cardinality(kr.inflight) <= kr.limit

\* after a completion out of order the pool is full again and items wait
C34_Witness ==
  /\ kr.stage = "pool"
  /\ Cardinality(kr.inflight) = kr.limit
  /\ kr.idx < kr.n
  /\ \E p, q \in 1..kr.n : p < q /\ p \in kr.inflight /\ kr.results[q] # "none"


\* the pools of the two fetch engines
EnginePool == kr.stage = "pool" /\ kr.kind \in {"map", "pool"}
AllSettled == \A i \in 1..kr.n : kr.results[i] # "none"
PoolResolves ==
  /\ kr.resolveCalls <= 1
  /\ kr.promise = "resolved" <=> AllSettled
  /\ kr.idx < kr.n => kr.inflight # {}

\* C39 as claimed -- The pool resolves exactly once and only after every
\* invocation has settled, an invocation that throws is recorded as an error
\* result, the remaining items are still dispatched and the pool resolves as
\* soon as every invocation has settled.
C39_PoolResolvesOnce_AsClaimed ==
  EnginePool =>
    /\ PoolResolves
    /\ \A i \in 1..kr.n : kr.results[i] \in {"none", "value", "error"}

\* C39 -- The pool resolves exactly once and only after every invocation has
\* settled, the remaining items are still dispatched after an invocation
\* throws and the pool resolves as soon as every invocation has settled; a
\* throw is recorded as an error result by mapWithConcurrency and leaves an
\* undefined result in the pool of the JP engine.
C39_PoolResolvesOnce ==
  EnginePool =>
    /\ PoolResolves
    /\ \A i \in 1..kr.n :
         kr.results[i] \in
           {"none", "value", IF kr.kind = "map" THEN "error" ELSE "undefined"}

\* a resolved pool in which an early invocation threw and a later item, not
\* yet started at that moment, returned
C39_Witness ==
  /\ EnginePool
  /\ kr.promise = "resolved"
  /\ \E p, q \in 1..kr.n :
       /\ kr.results[p] \in {"error", "undefined"}
       /\ q > p + kr.limit
       /\ kr.results[q] = "value"


\* the identities of the good elements of the file read by the run
BadEntry(e) == e.kind = "null" \/ e.id = ""
HasBadEntry == \E i \in 1..Len(ft.view) : BadEntry(ft.view[i])
GoodIds == {ft.view[i].id : i \in {j \in 1..Len(ft.view) : ~ BadEntry(ft.view[j])}}

\* C35 -- A bad record in the source view (a null element, or an element
\* without an id) is skipped: the run does not crash, the bad record adds
\* no row to the master, and the other records are merged and persisted
\* when the run is over.
C35_BadRecordSkipped ==
  (ft.stage = "raw" /\ run > 0 /\ HasBadEntry) =>
    /\ fault # "typeerror"
    /\ pc # "idle"
    /\ DOMAIN working = GoodIds
    /\ pc = "done" => DOMAIN master = GoodIds


\* the resolver has returned the record at rs.res.pos under one of rules
Returned(rules) == rs.stage = "resolved" /\ rs.res.rule \in rules
Hit == rs.arr[rs.res.pos]
PlatformOf(item) == normalizePlatform(item.platform)

\* C36 -- Every match returned with rule k1, k2, k3 or title is a region
\* record whose normalized platform equals the canonical record's; only a
\* loose-slug match may pair records of different platforms.
C36_SamePlatformUnlessK4 ==
  Returned({"k1", "k2", "k3", "title"}) =>
    /\ PlatformOf(Hit) # NULL
    /\ PlatformOf(Hit) = PlatformOf(rs.us)

\* an exact match that passed over an earlier record with the same id and
\* productCode on another platform
C36_Witness ==
  /\ Returned({"k1", "k2", "k3"})
  /\ \E q \in 1..(rs.res.pos - 1) :
       /\ rs.arr[q].nsuid = Hit.nsuid
       /\ rs.arr[q].productCode = Hit.productCode
       /\ PlatformOf(rs.arr[q]) \notin {NULL, PlatformOf(Hit)}

\* what the exact keys need of a region record
HasFourDigits(item) == \E k \in 1..Len(item.nsuid) : item.nsuid[k] # "D"
SameSlug(a, b) ==
  /\ joinWords(normalizeSlug(a.urlKey)) # <<>>
  /\ joinWords(normalizeSlug(a.urlKey)) = joinWords(normalizeSlug(b.urlKey))
LoneCodeless ==
  /\ Len(rs.arr) = 1
  /\ rs.arr[1].productCode = <<>>
  /\ SameSlug(rs.arr[1], rs.us)
  /\ normalizeSlug(rs.us.urlKey) \notin STRICT_URLKEYS

\* C37 -- A region record is returned by K1, K2 or K3 only if it has an id
\* of at least four digits, a productCode and a platform; and a region
\* record without productCode, alone in its region and with the slug of a
\* canonical record off the strict list, is returned with rule k4.
C37_ExactKeysNeedAllParts ==
  /\ Returned({"k1", "k2", "k3"}) =>
       /\ HasFourDigits(Hit)
       /\ Hit.productCode # <<>>
       /\ PlatformOf(Hit) # NULL
  /\ (rs.stage = "resolved" /\ LoneCodeless) =>
       rs.res = [pos |-> 1, rule |-> "k4"]

\* the lone record without productCode has been returned by its slug to a
\* canonical record that has all the parts of an exact key
C37_Witness ==
  /\ rs.stage = "resolved"
  /\ LoneCodeless
  /\ rs.res.rule = "k4"
  /\ rs.us.nsuid # <<>> /\ rs.us.productCode # <<>> /\ rs.us.platform # NULL


\* the canonical rows of the output, and the regions whose matched record
\* is active
CanonicalRows == 1..(IF mg.stage = "idle" THEN 0 ELSE Len(mg.us))
Merged(k) == k <= Len(mg.merged)
ActiveMatches(k) ==
  {r \in RegionSet :
     /\ mg.merged[k].matched[r] # 0
     /\ mg.data[r][mg.merged[k].matched[r]].active_in_base}

\* C38 -- The merged active_in_base of a canonical row is true if and only
\* if the canonical record's own flag is true or a region record matched to
\* it is active; a matched record that is not active leaves the flag as it
\* was.
C38_ActiveIsOrOfMatches ==
  \A k \in CanonicalRows :
    Merged(k) =>
      (mg.merged[k].active_in_base
         <=> (mg.us[k].active_in_base \/ ActiveMatches(k) # {}))

\* a written output in which an inactive canonical row, matched in one
\* region to a record that is not active, was raised by an active match of
\* another region
C38_Witness ==
  /\ mg.stage = "written"
  /\ \E k \in CanonicalRows :
       /\ ~ mg.us[k].active_in_base
       /\ \E r \in RegionSet : mg.merged[k].matched[r] # 0
       /\ \E r \in RegionSet :
            /\ mg.merged[k].matched[r] # 0
            /\ ~ mg.data[r][mg.merged[k].matched[r]].active_in_base
       /\ ActiveMatches(k) # {}
       /\ mg.merged[k].active_in_base


\* a record no pass has anything to fetch for: inactive, or marked empty,
\* or with both its productCode and its platform
NothingToFetch(g) ==
  \/ ~ g.active_in_base
  \/ g.productCode_hk = ""
  \/ IsNonBlankString(g.productCode_hk) /\ IsNonBlankString(g.platform)

\* the step leaves every such record, and every record outside the
\* worklists, as it was
UntouchedStep ==
  \A id \in DOMAIN working :
    (id \notin Worklisted \/ NothingToFetch(working[id])) =>
      (id \in DOMAIN working' /\ working'[id] = working[id])

\* C40 -- The fetch passes change only records of the worklists: a record
\* that is in no worklist, and a record that is inactive, marked empty or
\* complete, keeps all its fields, last_checked_at included, in every step
\* of the passes, however the workers interleave.
C40_OnlyWorklistChanges ==
  [][(pc \in {"pass1", "pass2"}) => UntouchedStep]_vars

\* a finished second run that fetched for one record and left another, last
\* checked by the first run, as it was
C40_Witness ==
  /\ pc = "done" /\ run = 2
  /\ \E id \in DOMAIN working \ Worklisted :
       /\ working[id].last_checked_at = StampNow(1)
       /\ master[id] = working[id]
  /\ \E id \in Worklisted : working[id].last_checked_at = StampNow(2)

====
